---- MODULE Spec2Model ----
(***************************************************************************)
(* A model of the scam-classification and intelligence-extraction          *)
(* pipeline of the Agentic Honeypot service:                               *)
(*   - LLMClientFactory   (app/llm_client.py): backend selection + cache   *)
(*   - FallbackLLMClient  (app/llm_client.py): rule-based classifier       *)
(*   - ScamDetector       (app/scam_detector.py): prompt, call, parse      *)
(*   - IntelligenceExtractor (app/intelligence_extractor.py)               *)
(* Python strings are TLA+ strings; every text operation of the code       *)
(* (find, strip, lower, split, the regular expressions) is computed on     *)
(* the characters.  Floats are integers in units of 1/10000; a product     *)
(* that IEEE-754 rounds just above its decimal value carries one extra     *)
(* unit (3*0.1 = 0.30000000000000004 is 3001).                             *)
(***************************************************************************)
EXTENDS Integers, Sequences, FiniteSets, TLC

VARIABLES
    \* --- LLMClientFactory and the environment it probes
    avail,        \* provider -> BOOLEAN: credential present and SDK importable
    instance,     \* LLMClientFactory._instance: "None" or a backend kind
    lastCall,     \* the operation performed last and what it returned / probed
    prevInstance, \* the selection dropped by the latest reset()
    \* --- concurrent first use of get_client
    tpc,          \* thread -> position inside get_client
    tchosen,      \* thread -> the client object it constructed ("None" before)
    tret,         \* thread -> value returned by get_client ("None" before)
    \* --- ScamDetector.detect, one request at a time
    backend,      \* ScamDetector.llm_client: the backend kind captured at construction
    dpc,          \* position inside detect: idle, awaiting, returned, raised
    cur_request,  \* the HoneypotRequest being processed
    cur_prompt,   \* the detection prompt built for it
    calls,        \* the backends whose generate was called for this request, in order
    cur_response, \* what generate returned: [got, value (<<>> is None, <<text>> a str)]
    result,       \* what detect produced: [verdict, path, by, cause, exc]
    prev,         \* confidence and risk level of the verdict detect returned before
    \* --- IntelligenceExtractor.extract_all
    ex_text,      \* the text handed to the latest extract_all call
    ex_order,     \* the iteration order of sets under the process's hash seed
    ex_ref,       \* an earlier extract_all call, kept for comparison
    intel,        \* the ExtractedIntelligence it returned
    \* --- FallbackLLMClient.generate
    rb_last,      \* the latest generate call on the rule-based client
    rb_ref,       \* an earlier classification call, kept for comparison
    \* --- POST /api/v1/analyze, one request at a time
    an_pc,        \* idle, or responded once the response is built
    an_call,      \* the HTTP request: [key, body]
    an_history,   \* the caller's conversationHistory list as the handler leaves it
    an_steps,     \* the calls the request caused, in order
    an_text,      \* the text handed to extract_all (<<>> if it was not called)
    an_prompt,    \* the prompt detect built for it (<<>> if none was built)
    an_verdict,   \* the ScamAnalysis detect returned (<<>> if detect did not run)
    an_fault,     \* the exception that ended the request (NoExc if none)
    an_response,  \* the HTTP response: its status code and JSON body
    agent_backend \* AutonomousAgent.llm_client: the backend kind the agent captured

factoryVars == <<avail, instance, lastCall, prevInstance>>
raceVars    == <<tpc, tchosen, tret>>
detectVars  == <<backend, dpc, cur_request, cur_prompt, calls, cur_response, result, prev>>
extractVars == <<ex_text, ex_order, ex_ref, intel>>
ruleVars    == <<rb_last, rb_ref>>
analyzeVars == <<an_pc, an_call, an_history, an_steps, an_text, an_prompt, an_verdict,
                 an_fault, an_response,
                 agent_backend>>
vars        == <<avail, instance, lastCall, prevInstance, tpc, tchosen, tret,
                 backend, dpc, cur_request, cur_prompt, calls, cur_response, result, prev,
                 ex_text, ex_order, ex_ref, intel, rb_last, rb_ref,
                 an_pc, an_call, an_history, an_steps, an_text, an_prompt, an_verdict,
                 an_fault, an_response,
                 agent_backend>>

\* What the actions of each component leave alone
factoryFrame == <<raceVars, detectVars, extractVars, ruleVars, analyzeVars>>
raceFrame    == <<detectVars, extractVars, ruleVars, analyzeVars>>
detectFrame  == <<raceVars, extractVars, ruleVars, analyzeVars>>
extractFrame == <<factoryVars, raceVars, detectVars, ruleVars, analyzeVars>>
ruleFrame    == <<factoryVars, raceVars, detectVars, extractVars, analyzeVars>>
analyzeFrame == <<raceVars, ruleVars>>

(***************************************************************************)
(* Python str operations.  Positions are 1-based; Find returns 0 where     *)
(* str.find returns -1.                                                    *)
(***************************************************************************)
\* s[i..j], clipped to the string as a Python slice is
Slice(s, i, j) ==
    LET a == IF i < 1 THEN 1 ELSE i
        b == IF j > Len(s) THEN Len(s) ELSE j
    IN  IF a > b THEN "" ELSE SubSeq(s, a, b)

\* the character s[i] ("" outside the string)
Ch(s, i) == Slice(s, i, i)

Min(S) == CHOOSE x \in S : \A y \in S : x <= y

Max(S) == CHOOSE x \in S : \A y \in S : x >= y

Digits == {"0", "1", "2", "3", "4", "5", "6", "7", "8", "9"}

UpperLetters == {"A", "B", "C", "D", "E", "F", "G", "H", "I", "J", "K", "L", "M",
                 "N", "O", "P", "Q", "R", "S", "T", "U", "V", "W", "X", "Y", "Z"}

LowerLetters == {"a", "b", "c", "d", "e", "f", "g", "h", "i", "j", "k", "l", "m",
                 "n", "o", "p", "q", "r", "s", "t", "u", "v", "w", "x", "y", "z"}

Letters == UpperLetters \cup LowerLetters

\* str.isspace() for the characters that occur
Whitespace == {" ", "\n", "\t", "\r"}

LowerCh(c) ==
    CASE c = "A" -> "a" [] c = "B" -> "b" [] c = "C" -> "c" [] c = "D" -> "d"
      [] c = "E" -> "e" [] c = "F" -> "f" [] c = "G" -> "g" [] c = "H" -> "h"
      [] c = "I" -> "i" [] c = "J" -> "j" [] c = "K" -> "k" [] c = "L" -> "l"
      [] c = "M" -> "m" [] c = "N" -> "n" [] c = "O" -> "o" [] c = "P" -> "p"
      [] c = "Q" -> "q" [] c = "R" -> "r" [] c = "S" -> "s" [] c = "T" -> "t"
      [] c = "U" -> "u" [] c = "V" -> "v" [] c = "W" -> "w" [] c = "X" -> "x"
      [] c = "Y" -> "y" [] c = "Z" -> "z" [] OTHER -> c

UpperCh(c) ==
    CASE c = "a" -> "A" [] c = "b" -> "B" [] c = "c" -> "C" [] c = "d" -> "D"
      [] c = "e" -> "E" [] c = "f" -> "F" [] c = "g" -> "G" [] c = "h" -> "H"
      [] c = "i" -> "I" [] c = "j" -> "J" [] c = "k" -> "K" [] c = "l" -> "L"
      [] c = "m" -> "M" [] c = "n" -> "N" [] c = "o" -> "O" [] c = "p" -> "P"
      [] c = "q" -> "Q" [] c = "r" -> "R" [] c = "s" -> "S" [] c = "t" -> "T"
      [] c = "u" -> "U" [] c = "v" -> "V" [] c = "w" -> "W" [] c = "x" -> "X"
      [] c = "y" -> "Y" [] c = "z" -> "Z" [] OTHER -> c

\* str.lower() / str.upper() of s[i..j], halving the range at each level
RECURSIVE LowerRange(_, _, _)
LowerRange(s, i, j) ==
    IF i > j THEN ""
    ELSE IF i = j THEN LowerCh(Ch(s, i))
    ELSE LET m == (i + j) \div 2
         IN  LowerRange(s, i, m) \o LowerRange(s, m + 1, j)

Lower(s) == LowerRange(s, 1, Len(s))

RECURSIVE UpperRange(_, _, _)
UpperRange(s, i, j) ==
    IF i > j THEN ""
    ELSE IF i = j THEN UpperCh(Ch(s, i))
    ELSE LET m == (i + j) \div 2
         IN  UpperRange(s, i, m) \o UpperRange(s, m + 1, j)

Upper(s) == UpperRange(s, 1, Len(s))

\* s.startswith(p) and s.endswith(p)
StartsWith(s, p) == Len(p) <= Len(s) /\ Slice(s, 1, Len(p)) = p

EndsWith(s, p) == Len(p) <= Len(s) /\ Slice(s, Len(s) - Len(p) + 1, Len(s)) = p

\* s[i..] starts with p
MatchesAt(s, i, p) == i >= 1 /\ i + Len(p) - 1 <= Len(s) /\ Slice(s, i, i + Len(p) - 1) = p

\* s.find(sub, start): the first position >= start where sub occurs, else 0
Find(s, sub, start) ==
    LET hits == {i \in start..(Len(s) - Len(sub) + 1) : Slice(s, i, i + Len(sub) - 1) = sub}
    IN  IF hits = {} THEN 0 ELSE Min(hits)

\* sub in s
Contains(s, sub) == \E i \in 1..(Len(s) - Len(sub) + 1) : Slice(s, i, i + Len(sub) - 1) = sub

\* s.strip(chars): drop the leading and the trailing characters that are in chars
StripChars(s, chars) ==
    LET keep == {i \in 1..Len(s) : Ch(s, i) \notin chars}
    IN  IF keep = {} THEN "" ELSE Slice(s, Min(keep), Max(keep))

\* s.strip()
Strip(s) == StripChars(s, Whitespace)

\* s.split(sep) for a one-character separator
Split(s, sep) ==
    LET cuts == {i \in 1..Len(s) : Ch(s, i) = sep}
        n    == Cardinality(cuts)
        \* the k-th cut; cut 0 lies before the string and cut n+1 after it
        Cut(k) == IF k = 0 THEN 0
                  ELSE IF k = n + 1 THEN Len(s) + 1
                  ELSE CHOOSE i \in cuts : Cardinality({j \in cuts : j < i}) = k - 1
    IN  [k \in 1..(n + 1) |-> Slice(s, Cut(k - 1) + 1, Cut(k) - 1)]

\* sep.join(parts)
RECURSIVE Join(_, _)
Join(parts, sep) ==
    IF Len(parts) = 0 THEN ""
    ELSE IF Len(parts) = 1 THEN parts[1]
    ELSE parts[1] \o sep \o Join(Tail(parts), sep)

\* str(n) for a natural number
DigitStr(d) == Ch("0123456789", d + 1)

RECURSIVE NatStr(_)
NatStr(n) == IF n < 10 THEN DigitStr(n) ELSE NatStr(n \div 10) \o DigitStr(n % 10)

\* int() of a string of decimal digits
DigitVal(c) == Find("0123456789", c, 1) - 1

RECURSIVE DigitsVal(_)
DigitsVal(ds) ==
    IF Len(ds) = 0 THEN 0
    ELSE 10 * DigitsVal(Slice(ds, 1, Len(ds) - 1)) + DigitVal(Ch(ds, Len(ds)))

(***************************************************************************)
(* Floats.  A float is an integer in units of 1/10000: three decimal       *)
(* digits, and a last digit that is 1 when the double lies just above that *)
(* decimal (0.30000000000000004 is 3001, 0.7 is 7000).                     *)
(***************************************************************************)
\* The end of the run of decimal digits that starts at i (i - 1 if there is none).
DigitRunEnd(s, i) ==
    Min({k \in i..(Len(s) + 1) : k = Len(s) + 1 \/ Ch(s, k) \notin Digits}) - 1

\* The value of the fraction digits ds: the first three, and the excess digit.
FracVal(ds) ==
    LET d3   == Slice(ds \o "000", 1, 3)
        rest == Slice(ds, 4, Len(ds))
    IN  10 * DigitsVal(d3) + (IF \E k \in 1..Len(rest) : Ch(rest, k) # "0" THEN 1 ELSE 0)

\* A decimal literal -?digits(.digits)? starting at s[i]:
\* [ok, next (the position after it), n (its value)].
ParseNumber(s, i) ==
    LET neg     == Ch(s, i) = "-"
        i0      == IF neg THEN i + 1 ELSE i
        intEnd  == DigitRunEnd(s, i0)
        hasFrac == Ch(s, intEnd + 1) = "."
        fracEnd == IF hasFrac THEN DigitRunEnd(s, intEnd + 2) ELSE intEnd
        okInt   == intEnd >= i0 /\ (Ch(s, i0) = "0" => intEnd = i0)
        okFrac  == hasFrac => fracEnd >= intEnd + 2
        mag     == 10000 * DigitsVal(Slice(s, i0, intEnd))
                   + (IF hasFrac THEN FracVal(Slice(s, intEnd + 2, fracEnd)) ELSE 0)
    IN  IF okInt /\ okFrac
        THEN [ok |-> TRUE, next |-> fracEnd + 1, n |-> IF neg THEN 0 - mag ELSE mag]
        ELSE [ok |-> FALSE, next |-> i, n |-> 0]

\* repr(x) of a float x >= 0, as json.dumps writes it
FloatRepr(x) ==
    LET whole  == x \div 10000
        frac3  == (x % 10000) \div 10
        excess == x % 10
        d3     == DigitStr(frac3 \div 100) \o DigitStr((frac3 \div 10) % 10) \o DigitStr(frac3 % 10)
        \* the shortest fraction: trailing zeros dropped, one digit kept
        short  == IF frac3 % 100 = 0 THEN Slice(d3, 1, 1)
                  ELSE IF frac3 % 10 = 0 THEN Slice(d3, 1, 2) ELSE d3
    IN  IF excess = 0 THEN NatStr(whole) \o "." \o short
        ELSE IF x = 3001 THEN "0.30000000000000004"
        ELSE NatStr(whole) \o "." \o short \o "000000000000001"

(***************************************************************************)
(* json.loads, for documents that are a scalar, an array of scalars or an  *)
(* object whose values are scalars; strings hold no escape sequences and   *)
(* numbers no exponent.                                                    *)
(***************************************************************************)
JNull    == [t |-> "null", b |-> FALSE, n |-> 0, s |-> ""]
JBool(b) == [t |-> "bool", b |-> b, n |-> 0, s |-> ""]
JNum(n)  == [t |-> "num", b |-> FALSE, n |-> n, s |-> ""]
JStr(s)  == [t |-> "str", b |-> FALSE, n |-> 0, s |-> s]

JsonWs == {" ", "\n", "\t", "\r"}

SkipWs(s, i) == Min({k \in i..(Len(s) + 1) : k = Len(s) + 1 \/ Ch(s, k) \notin JsonWs})

NoParse(i) == [ok |-> FALSE, next |-> i, val |-> JNull]

\* A JSON string starting at the quote s[i]
ParseString(s, i) ==
    LET j    == Find(s, "\"", i + 1)
        body == Slice(s, i + 1, j - 1)
    IN  IF Ch(s, i) = "\"" /\ j > 0
           /\ \A k \in 1..Len(body) : Ch(body, k) \notin {"\\", "\n", "\t", "\r"}
        THEN [ok |-> TRUE, next |-> j + 1, val |-> JStr(body)]
        ELSE NoParse(i)

ParseScalar(s, i) ==
    IF Ch(s, i) = "\"" THEN ParseString(s, i)
    ELSE IF MatchesAt(s, i, "true") THEN [ok |-> TRUE, next |-> i + 4, val |-> JBool(TRUE)]
    ELSE IF MatchesAt(s, i, "false") THEN [ok |-> TRUE, next |-> i + 5, val |-> JBool(FALSE)]
    ELSE IF MatchesAt(s, i, "null") THEN [ok |-> TRUE, next |-> i + 4, val |-> JNull]
    ELSE LET num == ParseNumber(s, i)
         IN  IF num.ok THEN [ok |-> TRUE, next |-> num.next, val |-> JNum(num.n)]
             ELSE NoParse(i)

\* dict[k] = v
Put(obj, k, v) == [x \in (DOMAIN obj) \cup {k} |-> IF x = k THEN v ELSE obj[x]]

\* The members of an object from position i (just after "{" or ","):
\* [ok, next (the position after the closing brace), obj].
RECURSIVE ParseMembers(_, _, _)
ParseMembers(s, i, obj) ==
    LET fail == [ok |-> FALSE, next |-> i, obj |-> obj]
        Member(key, val, after) ==
            IF ~val.ok THEN fail
            ELSE IF Ch(s, after) = "}"
            THEN [ok |-> TRUE, next |-> after + 1, obj |-> Put(obj, key.val.s, val.val)]
            ELSE IF Ch(s, after) = ","
            THEN ParseMembers(s, after + 1, Put(obj, key.val.s, val.val))
            ELSE fail
        Value(key, val) == Member(key, val, SkipWs(s, val.next))
        Key(key, colon) ==
            IF ~key.ok \/ Ch(s, colon) # ":" THEN fail
            ELSE Value(key, ParseScalar(s, SkipWs(s, colon + 1)))
        Colon(key) == Key(key, SkipWs(s, key.next))
    IN  Colon(ParseString(s, SkipWs(s, i)))

\* The elements of an array from position i: [ok, next].
RECURSIVE ParseElements(_, _)
ParseElements(s, i) ==
    LET Element(val, after) ==
            IF ~val.ok THEN [ok |-> FALSE, next |-> i]
            ELSE IF Ch(s, after) = "]" THEN [ok |-> TRUE, next |-> after + 1]
            ELSE IF Ch(s, after) = "," THEN ParseElements(s, after + 1)
            ELSE [ok |-> FALSE, next |-> i]
        Value(val) == Element(val, SkipWs(s, val.next))
    IN  Value(ParseScalar(s, SkipWs(s, i)))

\* json.loads(s): [ok (FALSE: JSONDecodeError), type (the Python type of the
\* result), obj (the dict, for an object), val (the value, for a scalar)].
JsonLoads(s) ==
    LET i    == SkipWs(s, 1)
        fail == [ok |-> FALSE, type |-> "", obj |-> <<>>, val |-> JNull]
        AtEnd(k) == SkipWs(s, k) = Len(s) + 1
    IN  IF Ch(s, i) = "{"
        THEN IF Ch(s, SkipWs(s, i + 1)) = "}"
             THEN IF AtEnd(SkipWs(s, i + 1) + 1)
                  THEN [ok |-> TRUE, type |-> "dict", obj |-> <<>>, val |-> JNull]
                  ELSE fail
             ELSE LET Object(m) ==
                          IF m.ok /\ AtEnd(m.next)
                          THEN [ok |-> TRUE, type |-> "dict", obj |-> m.obj, val |-> JNull]
                          ELSE fail
                  IN  Object(ParseMembers(s, i + 1, <<>>))
        ELSE IF Ch(s, i) = "["
        THEN IF Ch(s, SkipWs(s, i + 1)) = "]"
             THEN IF AtEnd(SkipWs(s, i + 1) + 1)
                  THEN [ok |-> TRUE, type |-> "list", obj |-> <<>>, val |-> JNull]
                  ELSE fail
             ELSE LET Array(e) ==
                          IF e.ok /\ AtEnd(e.next)
                          THEN [ok |-> TRUE, type |-> "list", obj |-> <<>>, val |-> JNull]
                          ELSE fail
                  IN  Array(ParseElements(s, i + 1))
        ELSE LET Scalar(v) ==
                     IF v.ok /\ AtEnd(v.next)
                     THEN [ok |-> TRUE,
                           type |-> CASE v.val.t = "str" -> "str"
                                      [] v.val.t = "bool" -> "bool"
                                      [] v.val.t = "null" -> "NoneType"
                                      [] OTHER -> "float",
                           obj |-> <<>>, val |-> v.val]
                     ELSE fail
             IN  Scalar(ParseScalar(s, i))

(***************************************************************************)
(* FallbackLLMClient (app/llm_client.py): the rule-based backend           *)
(***************************************************************************)
SCAM_KEYWORDS == <<
    "prize", "winner", "lottery", "won", "congratulations", "claim",
    "urgent", "immediately", "verify", "kyc", "suspend", "blocked",
    "account", "update", "otp", "password", "pin", "cvv",
    "bank", "transfer", "payment", "upi", "send money", "reward",
    "bonus", "offer", "free", "gift", "click here", "link",
    "verify now", "act now", "limited time", "expire", "deadline", "government",
    "rbi", "income tax", "refund", "loan", "credit", "approved",
    "eligible", "job", "work from home", "earn money", "investment"
>>

ENGAGEMENT_RESPONSES == <<
    "Ji ji, main samajh raha hoon. Kripya thoda aur batayein.",
    "Acha ji? Ye toh bahut acchi baat hai! Mujhe kya karna hoga?",
    "Main thoda confused hoon, aap zaroor genuine honge. Batayein kaise aage badhein?",
    "Shukriya ji aapka. Mujhe trust hai aap par. Details share karein please.",
    "Haan ji bilkul. Main ready hoon. Aap batayein kya karna hai.",
    "Ye account number ya UPI ID bata dijiye jahan payment karni hai.",
    "Main abhi kar deta hoon. Bas confirmation ke liye ek baar repeat kar dijiye.",
    "Ji haan, main senior citizen hoon. Technology mein thoda weak hoon. Help kar dijiye."
>>

high_confidence_keywords == <<
    "lottery", "won prize", "claim prize", "congratulations you won",
    "send money", "pay fee", "processing fee", "advance payment",
    "kyc blocked", "account suspended", "account suspension", "verify immediately",
    "click here to claim", "limited time offer", "will be blocked", "share your upi",
    "share upi", "avoid suspension", "blocked today", "verify now",
    "account will be", "bank account blocked"
>>

\* sum(1 for keyword in keywords if keyword in text)
CountMatches(keywords, text) ==
    Cardinality({k \in 1..Len(keywords) : Contains(text, keywords[k])})

\* any(kw in text for kw in keywords)
AnyIn(keywords, text) == \E k \in 1..Len(keywords) : Contains(text, keywords[k])

\* text[start:end].strip() where start follows the first occurrence of opener
\* and end is the earliest end marker found from start on ("" without opener)
Section(text, opener, end_markers) ==
    IF ~Contains(text, opener) THEN ""
    ELSE LET start == Find(text, opener, 1) + Len(opener)
             found == {Find(text, end_markers[k], start) : k \in 1..Len(end_markers)} \ {0}
             end   == Min(found \cup {Len(text) + 1})
         IN  Strip(Slice(text, start, end - 1))

\* n * 0.1 in double arithmetic: 3, 6 and 7 tenths round just above the decimal
\* (from 10 tenths on the product is at least 1.0 and min(0.95, .) replaces it)
TimesTenth(n) == n * 1000 + (IF n \in {3, 6, 7} THEN 1 ELSE 0)

\* min(0.95, x)
Cap95(x) == IF x > 9500 THEN 9500 ELSE x

\* "high" if confidence > 0.7 else ("medium" if confidence > 0.4 else "low")
RiskBucket(confidence) ==
    IF confidence > 7000 THEN "high" ELSE IF confidence > 4000 THEN "medium" ELSE "low"

\* json.dumps of a str without characters that need escaping
JsonStr(s) == "\"" \o s \o "\""

\* _detect_scam with the kyc category tested before the lottery category
RuleVerdictKycFirst(text) ==
    LET message_text == Section(text, "MESSAGE:",
                                <<"SENDER:", "CHANNEL:", "TIMESTAMP:", "CONVERSATION">>)
        conv_text    == Section(text, "CONVERSATION HISTORY:",
                                <<"Respond with", "Remember:", "{", "JSON">>)
        full_context == Lower(message_text \o " " \o conv_text)
        high_matches    == CountMatches(high_confidence_keywords, full_context)
        regular_matches == CountMatches(SCAM_KEYWORDS, full_context)
        confidence == IF high_matches >= 1
                      THEN Cap95(5000 + high_matches * 2000)
                      ELSE Cap95(TimesTenth(regular_matches))
        is_scam    == IF high_matches >= 1 THEN TRUE
                      ELSE regular_matches >= 3 /\ confidence > 2500
        scam_type  ==
            IF ~is_scam THEN <<>>
            ELSE IF AnyIn(<<"kyc", "verify", "blocked", "suspended">>, full_context)
                 THEN <<"kyc_scam">>
            ELSE IF AnyIn(<<"prize", "lottery", "winner", "won">>, full_context)
                 THEN <<"lottery_scam">>
            ELSE IF AnyIn(<<"bank", "transfer", "upi", "payment">>, full_context)
                 THEN <<"financial_scam">>
            ELSE IF AnyIn(<<"job", "work from home", "investment">>, full_context)
                 THEN <<"job_investment_scam">>
            ELSE <<"unknown">>
    IN  [is_scam |-> is_scam,
         confidence |-> confidence,
         scam_type |-> scam_type,
         reasoning |-> "Detected " \o NatStr(high_matches) \o " high-confidence and "
                       \o NatStr(regular_matches) \o " regular scam indicators",
         risk_level |-> RiskBucket(confidence),
         high_matches |-> high_matches,
         regular_matches |-> regular_matches]

\* FallbackLLMClient._detect_scam: the verdict fields before serialisation
RuleVerdict(text) ==
    LET message_text == Section(text, "MESSAGE:",
                                <<"SENDER:", "CHANNEL:", "TIMESTAMP:", "CONVERSATION">>)
        conv_text    == Section(text, "CONVERSATION HISTORY:",
                                <<"Respond with", "Remember:", "{", "JSON">>)
        full_context == Lower(message_text \o " " \o conv_text)
        high_matches    == CountMatches(high_confidence_keywords, full_context)
        regular_matches == CountMatches(SCAM_KEYWORDS, full_context)
        confidence == IF high_matches >= 1
                      THEN Cap95(5000 + high_matches * 2000)
                      ELSE Cap95(TimesTenth(regular_matches))
        is_scam    == IF high_matches >= 1 THEN TRUE
                      ELSE regular_matches >= 3 /\ confidence > 2500
        scam_type  ==
            IF ~is_scam THEN <<>>
            ELSE IF AnyIn(<<"prize", "lottery", "winner", "won">>, full_context)
                 THEN <<"lottery_scam">>
            ELSE IF AnyIn(<<"kyc", "verify", "blocked", "suspended">>, full_context)
                 THEN <<"kyc_scam">>
            ELSE IF AnyIn(<<"bank", "transfer", "upi", "payment">>, full_context)
                 THEN <<"financial_scam">>
            ELSE IF AnyIn(<<"job", "work from home", "investment">>, full_context)
                 THEN <<"job_investment_scam">>
            ELSE <<"unknown">>
    IN  [is_scam |-> is_scam,
         confidence |-> confidence,
         scam_type |-> scam_type,
         reasoning |-> "Detected " \o NatStr(high_matches) \o " high-confidence and "
                       \o NatStr(regular_matches) \o " regular scam indicators",
         risk_level |-> RiskBucket(confidence),
         high_matches |-> high_matches,
         regular_matches |-> regular_matches]

\* FallbackLLMClient._detect_scam: json.dumps(result)
DetectScam(text) ==
    LET Dumps(r) ==
            "{\"is_scam\": " \o (IF r.is_scam THEN "true" ELSE "false")
            \o ", \"confidence\": " \o FloatRepr(r.confidence)
            \o ", \"scam_type\": "
            \o (IF r.scam_type = <<>> THEN "null" ELSE JsonStr(r.scam_type[1]))
            \o ", \"reasoning\": " \o JsonStr(r.reasoning)
            \o ", \"risk_level\": " \o JsonStr(r.risk_level) \o "}"
    IN  Dumps(RuleVerdict(text))

\* generate with the rule-based verdict drawn like an engagement response
FallbackGenerateSampled(prompt) ==
    {DetectScam(prompt)} \cup {ENGAGEMENT_RESPONSES[k] : k \in 1..Len(ENGAGEMENT_RESPONSES)}

\* generate choosing its branch on "scam" alone
FallbackGenerateScamOnly(prompt) ==
    IF Contains(Lower(prompt), "scam")
    THEN {DetectScam(prompt)}
    ELSE {ENGAGEMENT_RESPONSES[k] : k \in 1..Len(ENGAGEMENT_RESPONSES)}

\* FallbackLLMClient.generate: the texts it can return for a prompt (the
\* system prompt and the temperature are not read)
FallbackGenerate(prompt) ==
    IF Contains(Lower(prompt), "analyze") /\ Contains(Lower(prompt), "scam")
    THEN {DetectScam(prompt)}
    ELSE {ENGAGEMENT_RESPONSES[k] : k \in 1..Len(ENGAGEMENT_RESPONSES)}

(***************************************************************************)
(* ScamDetector (app/scam_detector.py): prompt construction                *)
(***************************************************************************)
\* SCAM_DETECTION_USER_PROMPT (app/prompts.py), the text after the history
PromptTail ==
    "\n" \o
    "\n" \o
    "Respond with a JSON object containing:\n" \o
    "{\n" \o
    "    \"is_scam\": <boolean>,\n" \o
    "    \"confidence\": <float between 0 and 1>,\n" \o
    "    \"scam_type\": <string or null - e.g., \"lottery_scam\", \"kyc_scam\", \"phishing\", \"financial_scam\">,\n" \o
    "    \"reasoning\": <string explaining your analysis>,\n" \o
    "    \"risk_level\": <\"low\", \"medium\", \"high\", or \"critical\">\n" \o
    "}\n" \o
    "\n" \o
    "Remember: Analyze silently. Never reveal detection to the sender."

\* history[-10:]
HistoryWindow == 10

LastEntries(history) ==
    SubSeq(history, IF Len(history) > HistoryWindow THEN Len(history) - HistoryWindow + 1 ELSE 1,
           Len(history))

\* [f"{msg.sender.upper()}: {msg.text}" for msg in history]
RECURSIVE HistoryLines(_)
HistoryLines(history) ==
    IF Len(history) = 0 THEN <<>>
    ELSE <<Upper(Head(history).sender) \o ": " \o Head(history).text>>
         \o HistoryLines(Tail(history))

\* ScamDetector._format_conversation_history
FormatConversationHistory(history) ==
    IF Len(history) = 0 THEN "" ELSE Join(HistoryLines(LastEntries(history)), "\n")

\* SCAM_DETECTION_USER_PROMPT.format(...) as detect fills it in
DetectionPrompt(request) ==
    LET history_text == FormatConversationHistory(request.conversationHistory)
    IN  "Analyze the following message for scam intent:\n\nMESSAGE: " \o request.message.text
        \o "\n\nSENDER: " \o request.message.sender
        \o "\nCHANNEL: " \o request.metadata[1].channel
        \o "\nTIMESTAMP: " \o request.message.timestamp
        \o "\n\nCONVERSATION HISTORY:\n"
        \o (IF history_text = "" THEN "No previous conversation" ELSE history_text)
        \o PromptTail

(***************************************************************************)
(* Exceptions: a class and str(e).  Parent is the Python class hierarchy.  *)
(***************************************************************************)
Exc(cls, msg) == [cls |-> cls, msg |-> msg]

NoExc == Exc("", "")

Parent(cls) ==
    CASE cls = "JSONDecodeError" -> "ValueError"
      [] cls = "ValidationError" -> "ValueError"
      [] cls = "Exception" -> "BaseException"
      [] cls = "BaseException" -> ""
      [] OTHER -> "Exception"

\* isinstance(e, handler) for an exception e of class cls
RECURSIVE IsSubclass(_, _)
IsSubclass(cls, handler) ==
    IF cls = "" THEN FALSE
    ELSE IF cls = handler THEN TRUE
    ELSE IsSubclass(Parent(cls), handler)

(***************************************************************************)
(* ScamAnalysis (app/models.py) as pydantic validates it, and              *)
(* ScamDetector._parse_response (app/scam_detector.py)                     *)
(***************************************************************************)
\* The backquote, which a TLA+ string cannot hold, is written ~ in every text.
FenceChar == "~"

Fence == FenceChar \o FenceChar \o FenceChar

Verdict(is_scam, confidence, scam_type, reasoning, risk_level) ==
    [is_scam |-> is_scam, confidence |-> confidence, scam_type |-> scam_type,
     reasoning |-> reasoning, risk_level |-> risk_level]

NoVerdict == Verdict(FALSE, 0, <<>>, "", "")

\* data.get(key, default) on a dict
DictGet(obj, key, default) == IF key \in DOMAIN obj THEN obj[key] ELSE default

\* float(v)
FloatCast(v) ==
    CASE v.t = "num"  -> [ok |-> TRUE, n |-> v.n, exc |-> NoExc]
      [] v.t = "bool" -> [ok |-> TRUE, n |-> IF v.b THEN 10000 ELSE 0, exc |-> NoExc]
      [] v.t = "str"  ->
            LET txt == Strip(v.s)
                num == ParseNumber(txt, 1)
            IN  IF txt # "" /\ num.ok /\ num.next = Len(txt) + 1
                THEN [ok |-> TRUE, n |-> num.n, exc |-> NoExc]
                ELSE [ok |-> FALSE, n |-> 0,
                      exc |-> Exc("ValueError",
                                  "could not convert string to float: '" \o v.s \o "'")]
      [] OTHER -> [ok |-> FALSE, n |-> 0,
                   exc |-> Exc("TypeError",
                               "float() argument must be a string or a real number, not 'NoneType'")]

\* pydantic's bool field: a bool, 0 or 1, or one of the accepted words
BoolWordsTrue == {"1", "on", "t", "true", "y", "yes"}

BoolWordsFalse == {"0", "off", "f", "false", "n", "no"}

BoolField(v) ==
    CASE v.t = "bool" -> [ok |-> TRUE, b |-> v.b]
      [] v.t = "num"  -> [ok |-> v.n \in {0, 10000}, b |-> v.n = 10000]
      [] v.t = "str"  -> [ok |-> Lower(v.s) \in BoolWordsTrue \cup BoolWordsFalse,
                          b |-> Lower(v.s) \in BoolWordsTrue]
      [] OTHER -> [ok |-> FALSE, b |-> FALSE]

\* ScamAnalysis(is_scam=..., confidence=..., scam_type=..., reasoning=..., risk_level=...):
\* pydantic accepts a str only for a str field, and a str or None for Optional[str]
ScamAnalysis(is_scam, confidence, scam_type, reasoning, risk_level) ==
    LET b   == BoolField(is_scam)
        bad == (IF b.ok THEN {} ELSE {"is_scam"})
               \cup (IF scam_type.t \in {"str", "null"} THEN {} ELSE {"scam_type"})
               \cup (IF reasoning.t = "str" THEN {} ELSE {"reasoning"})
               \cup (IF risk_level.t = "str" THEN {} ELSE {"risk_level"})
    IN  IF bad = {}
        THEN [ok |-> TRUE, exc |-> NoExc,
              verdict |-> Verdict(b.b, confidence,
                                  IF scam_type.t = "null" THEN <<>> ELSE <<scam_type.s>>,
                                  reasoning.s, risk_level.s)]
        ELSE [ok |-> FALSE, verdict |-> NoVerdict,
              exc |-> Exc("ValidationError",
                          NatStr(Cardinality(bad)) \o " validation error"
                          \o (IF Cardinality(bad) > 1 THEN "s" ELSE "")
                          \o " for ScamAnalysis")]

\* [l for l in lines if not l.strip().startswith(fence)]
RECURSIVE DropFenceLines(_)
DropFenceLines(lines) ==
    IF Len(lines) = 0 THEN <<>>
    ELSE IF StartsWith(Strip(Head(lines)), Fence) THEN DropFenceLines(Tail(lines))
    ELSE <<Head(lines)>> \o DropFenceLines(Tail(lines))

\* lines 90-96: the text handed to json.loads
CleanResponse(response) ==
    LET cleaned == Strip(response)
    IN  IF StartsWith(cleaned, Fence)
        THEN Join(DropFenceLines(Split(cleaned, "\n")), "\n")
        ELSE cleaned

\* lines 89-107, the try block: response is <<>> for None, <<text>> for a str.
\* [ok, verdict, exc (the exception raised when not ok)]
ParseStructured(response) ==
    IF response = <<>>
    THEN [ok |-> FALSE, verdict |-> NoVerdict,
          exc |-> Exc("AttributeError", "'NoneType' object has no attribute 'strip'")]
    ELSE LET Build(data, confidence) ==
                 IF ~confidence.ok
                 THEN [ok |-> FALSE, verdict |-> NoVerdict, exc |-> confidence.exc]
                 ELSE ScamAnalysis(DictGet(data.obj, "is_scam", JBool(FALSE)),
                                   confidence.n,
                                   DictGet(data.obj, "scam_type", JNull),
                                   DictGet(data.obj, "reasoning",
                                           JStr("No reasoning provided")),
                                   DictGet(data.obj, "risk_level", JStr("low")))
             Read(data) ==
                 IF ~data.ok
                 THEN [ok |-> FALSE, verdict |-> NoVerdict,
                       exc |-> Exc("JSONDecodeError", "Expecting value")]
                 ELSE IF data.type # "dict"
                 THEN [ok |-> FALSE, verdict |-> NoVerdict,
                       exc |-> Exc("AttributeError",
                                   "'" \o data.type \o "' object has no attribute 'get'")]
                 ELSE Build(data, FloatCast(DictGet(data.obj, "confidence", JNum(0))))
         IN  Read(JsonLoads(CleanResponse(response[1])))

\* lines 112-122: the verdict read off the raw text
HeuristicFromCleaned(response) ==
    LET response_lower == Lower(CleanResponse(response))
        is_scam == Contains(response_lower, "true") /\ Contains(response_lower, "is_scam")
    IN  Verdict(is_scam, IF is_scam THEN 5000 ELSE 2000,
                IF is_scam THEN <<"unknown">> ELSE <<>>,
                "Parsed from unstructured response",
                IF is_scam THEN "medium" ELSE "low")

HeuristicVerdict(response) ==
    LET response_lower == Lower(response)
        is_scam == Contains(response_lower, "true") /\ Contains(response_lower, "is_scam")
    IN  Verdict(is_scam, IF is_scam THEN 5000 ELSE 2000,
                IF is_scam THEN <<"unknown">> ELSE <<>>,
                "Parsed from unstructured response",
                IF is_scam THEN "medium" ELSE "low")

\* line 109: except json.JSONDecodeError
ParseHandler == "JSONDecodeError"

\* ScamDetector._parse_response: [raised, exc, verdict, path, cause (the
\* exception its try block raised, handled or not)]
ParseResponse(response) ==
    LET Outcome(body) ==
            IF body.ok
            THEN [raised |-> FALSE, exc |-> NoExc, verdict |-> body.verdict,
                  path |-> "structured", cause |-> NoExc]
            ELSE IF IsSubclass(body.exc.cls, ParseHandler)
            THEN [raised |-> FALSE, exc |-> NoExc,
                  verdict |-> HeuristicVerdict(response[1]),
                  path |-> "heuristic", cause |-> body.exc]
            ELSE [raised |-> TRUE, exc |-> body.exc, verdict |-> NoVerdict,
                  path |-> "", cause |-> body.exc]
    IN  Outcome(ParseStructured(response))

\* lines 65-71: the safe default built by detect's handler
DefaultVerdict(exc) ==
    Verdict(FALSE, 0, <<>>, "Detection error: " \o exc.msg, "low")

\* line 62: except Exception
DetectHandlerNarrow == "ValueError"

DetectHandler == "Exception"

(***************************************************************************)
(* Backends                                                                *)
(***************************************************************************)
None == "None"

\* The providers in the order get_client tries them.
Providers == <<"Groq", "OpenAI", "Gemini">>

ProviderSet == {Providers[i] : i \in 1..Len(Providers)}

Kinds == ProviderSet \cup {"Fallback"}

\* GroqClient / OpenAIClient / GeminiClient .is_available(): the client object
\* exists (key present, package imported); FallbackLLMClient: always True.
IsAvailable(kind, av) == IF kind = "Fallback" THEN TRUE ELSE av[kind]

\* The probes get_client makes on an empty cache, in order, up to and
\* including the first provider that reports available.
RECURSIVE ProbesFrom(_, _)
ProbesFrom(i, av) ==
    IF i > Len(Providers) THEN <<>>
    ELSE IF IsAvailable(Providers[i], av) THEN <<Providers[i]>>
    ELSE <<Providers[i]>> \o ProbesFrom(i + 1, av)

\* The client get_client constructs and stores on an empty cache.
SelectOrderSwapped(av) ==
    IF IsAvailable("OpenAI", av) THEN "OpenAI"
    ELSE IF IsAvailable("Groq", av) THEN "Groq"
    ELSE IF IsAvailable("Gemini", av) THEN "Gemini"
    ELSE "Fallback"

SelectClient(av) ==
    IF IsAvailable("Groq", av) THEN "Groq"
    ELSE IF IsAvailable("OpenAI", av) THEN "OpenAI"
    ELSE IF IsAvailable("Gemini", av) THEN "Gemini"
    ELSE "Fallback"

(***************************************************************************)
(* LLMClientFactory, one call at a time                                    *)
(***************************************************************************)
\* A credential appears or disappears between calls (environment change).
SetAvailable(p, b) ==
    /\ avail[p] # b
    /\ avail' = [avail EXCEPT ![p] = b]
    /\ lastCall' = [op |-> "set_available", hit |-> FALSE, ret |-> None, probed |-> <<>>]
    /\ UNCHANGED <<instance, prevInstance, factoryFrame>>

\* get_client without the cache test of lines 296-297.
GetClientAlwaysProbe ==
    /\ instance' = SelectClient(avail)
    /\ lastCall' = [op |-> "get_client", hit |-> FALSE,
                    ret |-> instance', probed |-> ProbesFrom(1, avail)]
    /\ UNCHANGED <<avail, prevInstance, factoryFrame>>

GetClient ==
    IF instance # None
    THEN /\ lastCall' = [op |-> "get_client", hit |-> TRUE,
                         ret |-> instance, probed |-> <<>>]
         /\ UNCHANGED <<avail, instance, prevInstance, factoryFrame>>
    ELSE /\ instance' = SelectClient(avail)
         /\ lastCall' = [op |-> "get_client", hit |-> FALSE,
                         ret |-> instance', probed |-> ProbesFrom(1, avail)]
         /\ UNCHANGED <<avail, prevInstance, factoryFrame>>

Reset ==
    /\ instance' = None
    /\ prevInstance' = instance
    /\ lastCall' = [op |-> "reset", hit |-> FALSE, ret |-> None, probed |-> <<>>]
    /\ UNCHANGED <<avail, factoryFrame>>

FactoryInit ==
    /\ avail \in [ProviderSet -> BOOLEAN]
    /\ instance = None
    /\ lastCall = [op |-> "init", hit |-> FALSE, ret |-> None, probed |-> <<>>]
    /\ prevInstance = None

RaceIdle ==
    /\ tpc = <<>>
    /\ tchosen = <<>>
    /\ tret = <<>>

FactoryNext ==
    \/ \E p \in ProviderSet, b \in BOOLEAN : SetAvailable(p, b)
    \/ GetClient
    \/ Reset

(***************************************************************************)
(* get_client called by several threads on an empty cache.  A thread can   *)
(* be preempted between the cache test, each is_available() probe, the     *)
(* assignment to cls._instance and the final read "return cls._instance".  *)
(***************************************************************************)
NumThreads == 2

Threads == 1..NumThreads

\* An eager variant that parks the rule-based client in the cache before probing.
CheckCacheEager(t) ==
    /\ tpc[t] = "check"
    /\ IF instance # None
       THEN /\ tret' = [tret EXCEPT ![t] = instance]
            /\ tpc' = [tpc EXCEPT ![t] = "done"]
            /\ UNCHANGED instance
       ELSE /\ instance' = "Fallback"
            /\ tpc' = [tpc EXCEPT ![t] = "probe1"]
            /\ UNCHANGED tret
    /\ UNCHANGED <<tchosen, avail, lastCall, prevInstance, raceFrame>>

\* lines 296-297: if cls._instance is not None: return cls._instance
CheckCache(t) ==
    /\ tpc[t] = "check"
    /\ IF instance # None
       THEN /\ tret' = [tret EXCEPT ![t] = instance]
            /\ tpc' = [tpc EXCEPT ![t] = "done"]
       ELSE /\ tpc' = [tpc EXCEPT ![t] = "probe1"]
            /\ UNCHANGED tret
    /\ UNCHANGED <<tchosen, factoryVars, raceFrame>>

ProbePc(i) == IF i = 1 THEN "probe1" ELSE IF i = 2 THEN "probe2" ELSE "probe3"

\* lines 300-301, 307-308, 314-315: construct provider i's client and probe it;
\* after the last provider, line 322 constructs the FallbackLLMClient.
Probe(t, i) ==
    /\ tpc[t] = ProbePc(i)
    /\ IF IsAvailable(Providers[i], avail)
       THEN /\ tchosen' = [tchosen EXCEPT ![t] = Providers[i]]
            /\ tpc' = [tpc EXCEPT ![t] = "assign"]
       ELSE IF i < Len(Providers)
       THEN /\ tpc' = [tpc EXCEPT ![t] = ProbePc(i + 1)]
            /\ UNCHANGED tchosen
       ELSE /\ tchosen' = [tchosen EXCEPT ![t] = "Fallback"]
            /\ tpc' = [tpc EXCEPT ![t] = "assign"]
    /\ UNCHANGED <<tret, factoryVars, raceFrame>>

\* lines 303, 310, 317, 322: cls._instance = <the client just constructed>
Assign(t) ==
    /\ tpc[t] = "assign"
    /\ instance' = tchosen[t]
    /\ tpc' = [tpc EXCEPT ![t] = "return"]
    /\ UNCHANGED <<tchosen, tret, avail, lastCall, prevInstance, raceFrame>>

\* lines 304, 311, 318, 323: return cls._instance (a fresh read of the attribute)
Return(t) ==
    /\ tpc[t] = "return"
    /\ tret' = [tret EXCEPT ![t] = instance]
    /\ tpc' = [tpc EXCEPT ![t] = "done"]
    /\ UNCHANGED <<tchosen, factoryVars, raceFrame>>

RaceInit ==
    /\ FactoryInit
    /\ tpc = [t \in Threads |-> "check"]
    /\ tchosen = [t \in Threads |-> None]
    /\ tret = [t \in Threads |-> None]

RaceNext ==
    \E t \in Threads :
        \/ CheckCache(t)
        \/ \E i \in 1..Len(Providers) : Probe(t, i)
        \/ Assign(t)
        \/ Return(t)

(***************************************************************************)
(* ScamDetector.detect (app/scam_detector.py lines 25-71).  The coroutine  *)
(* has one suspension point, the await of generate: one action runs it up  *)
(* to the await, one from the await to its return.  Any exception raised   *)
(* inside the try block goes to the handler of line 62.                    *)
(***************************************************************************)
MaxHistory == 1

Timestamp == "2026-01-21T10:15:30Z"

MessageTexts ==
    {"Hello, I wanted to check if my order has been shipped.",
     "Your bank account will be blocked today. Verify immediately.",
     "Urgent: update OTP password pin cvv refund",
     "urgent update otp"}

HistoryEntries == {[sender |-> "user", text |-> "Why is my account blocked?"]}

Histories == UNION {[1..n -> HistoryEntries] : n \in 0..MaxHistory}

\* metadata is Optional[Metadata]: <<>> is an explicit null in the request body
Requests ==
    {[message |-> [sender |-> "scammer", text |-> t, timestamp |-> Timestamp],
      conversationHistory |-> h,
      metadata |-> m] :
        t \in MessageTexts, h \in Histories, m \in {<<>>, <<[channel |-> "SMS"]>>}}

NoRequest ==
    [message |-> [sender |-> "", text |-> "", timestamp |-> ""],
     conversationHistory |-> <<>>, metadata |-> <<>>]

Returned(text) == [raised |-> FALSE, exc |-> NoExc, value |-> <<text>>]

ReturnedNone == [raised |-> FALSE, exc |-> NoExc, value |-> <<>>]

Raised(exc) == [raised |-> TRUE, exc |-> exc, value |-> <<>>]

SampleObject ==
    "{\"is_scam\": true, \"confidence\": 0.85, \"scam_type\": \"phishing\", "
    \o "\"reasoning\": \"Suspicious link\", \"risk_level\": \"high\"}"

\* What a provider's generate can do: raise, return None (an empty completion),
\* or return any text.
ProviderTexts ==
    {SampleObject,
     Fence \o "json\n" \o SampleObject \o "\n" \o Fence,
     "Here is the analysis:\n" \o Fence \o "json\n" \o SampleObject \o "\n" \o Fence,
     "{\"is_scam\": false, \"confidence\": 0.1, \"risk_level\": \"critical\"}",
     "{\"is_scam\": true, \"confidence\": 0.9, \"reasoning\": \"Asks for OTP\", \"risk_level\": \"low\"}",
     "{\"is_scam\": true, \"confidence\": 1.5, \"risk_level\": \"extreme\"}",
     "{\"is_scam\": true, \"confidence\": -0.2}",
     "{}",
     "[1, 2]",
     "{\"is_scam\": true, \"confidence\": \"high\"}",
     "{\"is_scam\": true, \"confidence\": null}",
     "{\"is_scam\": \"maybe\", \"confidence\": 0.5}",
     "I think is_scam: TRUE",
     "Sorry, I cannot help with that.",
     Fence \o "true\nis_scam",
     ""}

ProviderOutcomes ==
    {Returned(t) : t \in ProviderTexts}
    \cup {ReturnedNone,
          Raised(Exc("APIConnectionError", "Connection error.")),
          Raised(Exc("RuntimeError", "Event loop is closed"))}

\* The prompt detect builds for each request that has a metadata object
DetectionPrompts ==
    [r \in {q \in Requests : q.metadata # <<>>} |-> DetectionPrompt(r)]

\* generate of the rule-based backend on each of these prompts
FallbackOutcomes ==
    [r \in DOMAIN DetectionPrompts |->
        {Returned(t) : t \in FallbackGenerate(DetectionPrompts[r])}]

\* generate of the backend kind on the prompt of request r
BackendOutcomes(kind, r) ==
    IF kind = "Fallback" THEN FallbackOutcomes[r] ELSE ProviderOutcomes

\* Every value a generate call can return
ReturnValues ==
    {o.value : o \in {x \in ProviderOutcomes : ~x.raised}}
    \cup UNION {{o.value : o \in FallbackOutcomes[r]} : r \in DOMAIN FallbackOutcomes}

\* _parse_response on each of them
Parsed == [v \in ReturnValues |-> ParseResponse(v)]

NoResult ==
    [verdict |-> NoVerdict, path |-> "", by |-> None, cause |-> NoExc, exc |-> NoExc]

NoResponse == [got |-> FALSE, value |-> <<>>]

NoPrev == [set |-> FALSE, confidence |-> 0, risk_level |-> ""]

\* ScamDetector.__init__ (lines 22-23): a detector keeps the client get_client
\* returns when it is constructed.  A detector constructed after a reset(), or in
\* a process started with other keys, holds the selection for that availability.
NewDetector(av) ==
    /\ dpc \in {"idle", "returned"}
    /\ av # avail
    /\ avail' = av
    /\ backend' = SelectClient(av)
    /\ UNCHANGED <<instance, lastCall, prevInstance, detectFrame>>
    /\ UNCHANGED <<dpc, cur_request, cur_prompt, calls, cur_response, result, prev>>

\* lines 62-71: the handler of detect's try block receives exc; detect returns
\* the default verdict, or the exception leaves detect if the clause does not match
Handle(exc) ==
    IF IsSubclass(exc.cls, DetectHandler)
    THEN /\ result' = [verdict |-> DefaultVerdict(exc), path |-> "error", by |-> backend,
                       cause |-> exc, exc |-> NoExc]
         /\ dpc' = "returned"
    ELSE /\ result' = [verdict |-> NoVerdict, path |-> "", by |-> backend,
                       cause |-> exc, exc |-> exc]
         /\ dpc' = "raised"

\* lines 35-53, up to the await: the history and the prompt are built
\* (request.metadata.channel raises on a null metadata) and generate is called
StartDetect(r) ==
    /\ dpc \in {"idle", "returned"}
    /\ prev' = IF dpc = "returned"
               THEN [set |-> TRUE,
                     confidence |-> result.verdict.confidence,
                     risk_level |-> result.verdict.risk_level]
               ELSE prev
    /\ cur_response' = NoResponse
    /\ IF r.metadata = <<>>
       THEN /\ Handle(Exc("AttributeError", "'NoneType' object has no attribute 'channel'"))
            /\ cur_request' = NoRequest
            /\ cur_prompt' = ""
            /\ calls' = <<>>
       ELSE /\ cur_request' = r
            /\ cur_prompt' = DetectionPrompts[r]
            /\ calls' = <<backend>>
            /\ result' = NoResult
            /\ dpc' = "awaiting"
    /\ UNCHANGED <<backend, factoryVars, detectFrame>>

\* lines 49-71, from the await on: generate raises or returns, the response is
\* parsed and detect returns; its locals (request, prompt) go out of scope
Complete ==
    /\ dpc = "awaiting"
    /\ \E out \in BackendOutcomes(backend, cur_request) :
          IF out.raised
          THEN /\ Handle(out.exc)
               /\ UNCHANGED cur_response
          ELSE LET Finish(analysis) ==
                       IF analysis.raised
                       THEN Handle(analysis.exc)
                       ELSE /\ result' = [verdict |-> analysis.verdict,
                                          path |-> analysis.path, by |-> backend,
                                          cause |-> analysis.cause, exc |-> NoExc]
                            /\ dpc' = "returned"
               IN  /\ cur_response' = [got |-> TRUE, value |-> out.value]
                   /\ Finish(Parsed[out.value])
    /\ cur_request' = NoRequest
    /\ cur_prompt' = ""
    /\ UNCHANGED <<backend, calls, prev, factoryVars, detectFrame>>

DetectIdle ==
    /\ dpc = "idle"
    /\ cur_request = NoRequest
    /\ cur_prompt = ""
    /\ calls = <<>>
    /\ cur_response = NoResponse
    /\ result = NoResult
    /\ prev = NoPrev

DetectInit == backend = SelectClient(avail) /\ DetectIdle

DetectNext ==
    \/ \E av \in [ProviderSet -> BOOLEAN] : NewDetector(av)
    \/ \E r \in Requests : StartDetect(r)
    \/ Complete

(***************************************************************************)
(* IntelligenceExtractor: the regular expressions, matched as re matches   *)
(* them on ASCII text                                                      *)
(***************************************************************************)
\* \w
WordChars == Letters \cup Digits \cup {"_"}

\* \b before s[i]: exactly one of s[i-1] and s[i] is a word character
WordBoundary(s, i) == (Ch(s, i - 1) \in WordChars) # (Ch(s, i) \in WordChars)

\* the last position of the run of characters of class that starts at s[i],
\* i - 1 when s[i] is not in class: what a greedy [class]* consumes
RECURSIVE RunEnd(_, _, _)
RunEnd(s, i, class) == IF Ch(s, i) \in class THEN RunEnd(s, i + 1, class) ELSE i - 1

\* pattern.findall(s) from position from on: the matches taken left to right,
\* each search resuming where the last match ended; ends[i] is the last
\* position of the match that starts at i
RECURSIVE FindAll(_, _, _)
FindAll(s, ends, from) ==
    LET starts == {i \in DOMAIN ends : i >= from}
        TakeAt(i) == <<Slice(s, i, ends[i])>> \o FindAll(s, ends, ends[i] + 1)
    IN  IF starts = {} THEN <<>> ELSE TakeAt(Min(starts))

\* \b\d{9,18}\b at s[i]: the last position of the match, 0 if there is none.
\* A run of digits longer than 18, or followed by a letter or "_", has no
\* \b inside it or at its end, so only a whole run of 9 to 18 digits matches.
BankAccountEnd(s, i) ==
    LET Whole(e) == IF e - i + 1 >= 9 /\ e - i + 1 <= 18 /\ WordBoundary(s, e + 1)
                    THEN e ELSE 0
    IN  IF Ch(s, i) \in Digits /\ WordBoundary(s, i)
        THEN Whole(RunEnd(s, i, Digits)) ELSE 0

BANK_ACCOUNT_PATTERN(s) ==
    FindAll(s, [i \in {j \in 1..Len(s) : BankAccountEnd(s, j) # 0} |-> BankAccountEnd(s, i)], 1)

\* \b[A-Z]{4}0[A-Z0-9]{6}\b with IGNORECASE at s[i]
IfscEnd(s, i) ==
    IF /\ Ch(s, i) \in Letters
       /\ WordBoundary(s, i)
       /\ \A k \in 1..3 : Ch(s, i + k) \in Letters
       /\ Ch(s, i + 4) = "0"
       /\ \A k \in 5..10 : Ch(s, i + k) \in Letters \cup Digits
       /\ WordBoundary(s, i + 11)
    THEN i + 10 ELSE 0

IFSC_PATTERN(s) ==
    FindAll(s, [i \in {j \in 1..Len(s) : IfscEnd(s, j) # 0} |-> IfscEnd(s, i)], 1)

\* [a-zA-Z0-9._-]
UpiLocalChars == Letters \cup Digits \cup {".", "_", "-"}

\* \b[a-zA-Z0-9._-]+@[a-zA-Z]{2,}[a-zA-Z0-9]*\b with IGNORECASE at s[i]: the
\* local part is the run up to the "@", the domain the run of letters and
\* digits after it, which starts with two letters and ends at a \b
UpiEnd(s, i) ==
    LET Ends(e) == IF WordBoundary(s, e + 1) THEN e ELSE 0
        Domain(at) == IF /\ Ch(s, at) = "@"
                         /\ Ch(s, at + 1) \in Letters
                         /\ Ch(s, at + 2) \in Letters
                      THEN Ends(RunEnd(s, at + 1, Letters \cup Digits)) ELSE 0
    IN  IF Ch(s, i) \in UpiLocalChars /\ WordBoundary(s, i)
        THEN Domain(RunEnd(s, i, UpiLocalChars) + 1) ELSE 0

UPI_PATTERN(s) ==
    FindAll(s, [i \in {j \in 1..Len(s) : UpiEnd(s, j) # 0} |-> UpiEnd(s, i)], 1)

\* the characters [^\s<>"'{}|\\^`\[\]] excludes
UrlStopChars == Whitespace \cup {"<", ">", "\"", "'", "{", "}", "|", "\\", "^",
                                 FenceChar, "[", "]"}

\* what [^\s<>"'{}|\\^`\[\]]* consumes from s[i] on
RECURSIVE UrlRunEnd(_, _)
UrlRunEnd(s, i) ==
    IF i <= Len(s) /\ Ch(s, i) \notin UrlStopChars THEN UrlRunEnd(s, i + 1) ELSE i - 1

\* https?://[^...]+|www\.[^...]+ with IGNORECASE at s[i]
UrlEnd(s, i) ==
    LET Ends(from, e) == IF e >= from THEN e ELSE 0
        Body(from) == Ends(from, UrlRunEnd(s, from))
        Scheme(h) == IF StartsWith(h, "https://") THEN Body(i + 8)
                     ELSE IF StartsWith(h, "http://") THEN Body(i + 7)
                     ELSE IF StartsWith(h, "www.") THEN Body(i + 4)
                     ELSE 0
    IN  IF Ch(s, i) \in {"h", "H", "w", "W"} THEN Scheme(Lower(Slice(s, i, i + 7))) ELSE 0

url_pattern(s) ==
    FindAll(s, [i \in {j \in 1..Len(s) : UrlEnd(s, j) # 0} |-> UrlEnd(s, i)], 1)

(***************************************************************************)
(* IntelligenceExtractor: validation of the candidates and extract_all     *)
(***************************************************************************)
VALID_UPI_SUFFIXES ==
    {"ybl", "okhdfcbank", "okaxis", "oksbi", "okicici",
     "paytm", "upi", "gpay", "ibl", "axl", "sbi",
     "icici", "hdfc", "axis", "kotak", "bob", "pnb",
     "canara", "union", "indian", "idbi", "rbl", "yes",
     "federal", "indus", "dbs", "citi", "hsbc", "sc",
     "apl", "pingpay", "freecharge", "airtel", "jio",
     "waaxis", "wahdfcbank", "wasbi", "waicici"}

SUSPICIOUS_INDICATORS ==
    {"verify", "secure", "update", "confirm", "login",
     "bank", "account", "claim", "prize", "winner",
     "kyc", "suspend", "block", "urgent", "reward",
     "lottery", "lucky", "bonus", "offer", "free"}

email_domains == {"gmail", "yahoo", "hotmail", "outlook", "mail", "email"}

bank_keywords ==
    {"account", "a/c", "bank", "transfer", "send", "money",
     "deposit", "credit", "debit", "neft", "rtgs", "imps",
     "ifsc", "branch", "savings", "current"}

shorteners == {"bit.ly", "tinyurl", "goo.gl", "t.co", "ow.ly", "is.gd", "buff.ly"}

suspicious_tlds == {".tk", ".ml", ".ga", ".cf", ".gq", ".xyz", ".top", ".click",
                    ".online", ".site", ".win", ".vip"}

legitimate_domains ==
    {"google.com", "facebook.com", "twitter.com", "instagram.com",
     "youtube.com", "github.com", "linkedin.com", "microsoft.com",
     "apple.com", "amazon.com", "wikipedia.org", "gov.in",
     "sbi.co.in", "hdfcbank.com", "icicibank.com", "axisbank.com"}

\* any(x in s for x in subs)
AnySubstring(s, subs) == \E x \in subs : Contains(s, x)

\* candidate.split('@')[-1].lower()
UpiSuffix(candidate) ==
    LET Last(parts) == Lower(parts[Len(parts)])
    IN  Last(Split(candidate, "@"))

IsLikelyEmail(text) == AnySubstring(UpiSuffix(text), email_domains)

\* re.match(r'^\d{10}@', candidate)
PhoneBased(candidate) ==
    /\ \A k \in 1..10 : Ch(candidate, k) \in Digits
    /\ Ch(candidate, 11) = "@"

\* _extract_upi_ids with the acceptance rules tried before the email test
ExtractUpiIdsAcceptFirst(text) ==
    LET Known(suffix) == \/ suffix \in VALID_UPI_SUFFIXES
                         \/ Contains(suffix, "upi")
                         \/ Contains(suffix, "pay")
        Valid(candidate) == Known(UpiSuffix(candidate)) \/ PhoneBased(candidate)
    IN  SelectSeq(UPI_PATTERN(text), Valid)

ExtractUpiIds(text) ==
    LET Known(suffix) == \/ suffix \in VALID_UPI_SUFFIXES
                         \/ Contains(suffix, "upi")
                         \/ Contains(suffix, "pay")
        Valid(candidate) == /\ ~IsLikelyEmail(candidate)
                            /\ Known(UpiSuffix(candidate)) \/ PhoneBased(candidate)
    IN  SelectSeq(UPI_PATTERN(text), Valid)

\* _has_bank_context searching the whole text instead of the window
HasBankContextAnywhere(text, number) ==
    LET Around(pos) ==
            IF pos = 0 THEN TRUE
            ELSE AnySubstring(Lower(text), bank_keywords)
    IN  Around(Find(text, number, 1))

\* the keyword search in the 100 characters on either side of the first
\* occurrence of number in text
HasBankContext(text, number) ==
    LET Around(pos) ==
            IF pos = 0 THEN TRUE
            ELSE AnySubstring(Lower(Slice(text, pos - 100, pos + Len(number) + 99)),
                              bank_keywords)
    IN  Around(Find(text, number, 1))

\* _extract_bank_info without the phone-number test
ExtractBankInfoKeepPhones(text) ==
    LET Valid(acc) == /\ ~(Len(acc) < 9 \/ Len(acc) > 18)
                      /\ HasBankContext(text, acc)
    IN  [valid_accounts |-> SelectSeq(BANK_ACCOUNT_PATTERN(text), Valid),
         ifsc_codes     |-> IFSC_PATTERN(text)]

ExtractBankInfo(text) ==
    LET Valid(acc) == /\ ~(Len(acc) = 10 /\ Ch(acc, 1) \in {"6", "7", "8", "9"})
                      /\ ~(Len(acc) < 9 \/ Len(acc) > 18)
                      /\ HasBankContext(text, acc)
    IN  [valid_accounts |-> SelectSeq(BANK_ACCOUNT_PATTERN(text), Valid),
         ifsc_codes     |-> IFSC_PATTERN(text)]

IsLegitimateDomain(url) == AnySubstring(url, legitimate_domains)

\* _extract_phishing_links without the legitimate-domain test
ExtractPhishingLinksKeepLegitimate(text) ==
    LET Flagged(url_lower) ==
            \/ AnySubstring(url_lower, SUSPICIOUS_INDICATORS)
            \/ AnySubstring(url_lower, shorteners)
            \/ AnySubstring(url_lower, suspicious_tlds)
        Suspicious(url) == Flagged(Lower(url))
        Stripped(urls) ==
            [k \in 1..Len(urls) |->
                StripChars(urls[k], {".", ",", ";", ":", "!", "?", "(", ")"})]
    IN  SelectSeq(Stripped(url_pattern(text)), Suspicious)

ExtractPhishingLinks(text) ==
    LET Flagged(url_lower) ==
            /\ ~IsLegitimateDomain(url_lower)
            /\ \/ AnySubstring(url_lower, SUSPICIOUS_INDICATORS)
               \/ AnySubstring(url_lower, shorteners)
               \/ AnySubstring(url_lower, suspicious_tlds)
        Suspicious(url) == Flagged(Lower(url))
        Stripped(urls) ==
            [k \in 1..Len(urls) |->
                StripChars(urls[k], {".", ",", ";", ":", "!", "?", "(", ")"})]
    IN  SelectSeq(Stripped(url_pattern(text)), Suspicious)

\* The orders in which a Python set of strings is iterated depend on the
\* hash seed of the process; three of them are modelled, over the elements
\* in the order of their first occurrence.
SetOrders == {"insertion", "reversed", "rotated"}

\* the elements of xs, once each, in the order of their first occurrence
Distinct(xs) ==
    LET firsts == {k \in 1..Len(xs) : \A j \in 1..(k - 1) : xs[j] # xs[k]}
        Nth(n) == CHOOSE k \in firsts : Cardinality({j \in firsts : j < k}) = n - 1
    IN  [n \in 1..Cardinality(firsts) |-> xs[Nth(n)]]

\* list(set(xs))
ListOfSet(xs, order) ==
    LET Arrange(d) ==
            CASE order = "insertion" -> d
              [] order = "reversed"  -> [k \in 1..Len(d) |-> d[Len(d) + 1 - k]]
              [] order = "rotated"   -> [k \in 1..Len(d) |-> d[(k % Len(d)) + 1]]
    IN  Arrange(Distinct(xs))

ListCap == 10

\* xs[:] in place of xs[:10]
LimitLifted(xs) == xs

\* xs[:10]
Limit(xs) == IF Len(xs) > ListCap THEN SubSeq(xs, 1, ListCap) ELSE xs

ExtractAll(text, order) ==
    LET Labelled(ifsc_codes) == [k \in 1..Len(ifsc_codes) |-> "IFSC: " \o ifsc_codes[k]]
        Combine(info) == ListOfSet(info.valid_accounts, order) \o Labelled(info.ifsc_codes)
    IN  [bankAccounts  |-> Limit(Combine(ExtractBankInfo(text))),
         upiIds        |-> Limit(ListOfSet(ExtractUpiIds(text), order)),
         phishingLinks |-> Limit(ListOfSet(ExtractPhishingLinks(text), order))]

(***************************************************************************)
(* The texts extract_all is called on                                      *)
(***************************************************************************)
\* Listings carry up to MaxItems entries of a kind, one more than the cap.
MaxItems == 11

TwoDigits(k) == IF k < 10 THEN "0" \o NatStr(k) ELSE NatStr(k)

AccountNumber(k) == "50100200" \o TwoDigits(k)

IfscCode(k) == "HDFC00012" \o TwoDigits(k)

UpiHandle(k) == "agent" \o NatStr(k) \o "@ybl"

LinkUrl(k) == "http://kyc-verify" \o NatStr(k) \o ".xyz/login"

ItemKinds == {"account", "ifsc", "upi", "link"}

Item(kind, k) ==
    CASE kind = "account" -> "a/c " \o AccountNumber(k)
      [] kind = "ifsc"    -> "IFSC " \o IfscCode(k)
      [] kind = "upi"     -> "pay " \o UpiHandle(k)
      [] kind = "link"    -> "visit " \o LinkUrl(k)

\* n entries of a kind; with again, the first entry is written a second time
Listing(kind, n, again) ==
    LET Entries(items) == Join(items, ", ")
        Repeated(items) == IF again /\ n > 0 THEN items \o <<items[1]>> ELSE items
    IN  Entries(Repeated([k \in 1..n |-> Item(kind, k)]))

ListingTexts ==
    {Listing(kind, n, again) : kind \in ItemKinds, n \in 0..MaxItems, again \in BOOLEAN}

\* account numbers followed by routing codes, as a payment instruction has them
BankTexts ==
    {Listing("account", n, FALSE) \o " and " \o Listing("ifsc", m, again) :
        n \in {1, MaxItems}, m \in {1, MaxItems}, again \in BOOLEAN}

\* n characters that are neither digits nor part of a keyword
RECURSIVE Filler(_)
Filler(n) == IF n = 0 THEN "" ELSE "." \o Filler(n - 1)

\* a digit run with a keyword n characters away from it, before or after, and
\* a digit run that occurs twice, the keyword next to the second occurrence
ContextTexts ==
    {"bank" \o Filler(n) \o "444444444" : n \in {96, 97}}
    \cup {"555555555" \o Filler(n) \o "bank" : n \in {96, 97}}
    \cup {"Ref 333333333 " \o Filler(120) \o " bank a/c 333333333",
          "Ref 1234567890123 " \o Filler(120) \o " bank a/c 123456789"}

LinkTexts ==
    {"Open http://evil-site.tk/redirect?to=google.com or http://example.org/page, then http://sbi.co.in.kyc-update.top/login, else www.lucky-draw.win.",
     "Read http://example.org/my.topics/page or http://mirror.example.vip today."}

SampleTexts ==
    {"Your account 123456789012 is blocked. Pay scammer@ybl or visit http://secure-kyc.xyz/login now. IFSC HDFC0001234, call 9876543210.",
     "Transfer to HDFC0001234 today. Branch code again: HDFC0001234",
     "Send money to 123456789012. I repeat, account 123456789012 at sbin0004321",
     "Mail ram@gmail.com or pay sita@okaxis, 9876543210@xyz, winner@paytm, winner@paytm.",
     "Verify at https://www.google.com/verify or www.free-prize.tk! Also (http://bit.ly/x1), http://bit.ly/x1.",
     "Your parcel 987654321 is waiting. Reference 1234567890123456789.",
     "Send money to bank account 9876543210 or a/c 50100200300.",
     "Call 9123456780 for help.",
     "Pay winner@paymail or 9876543210@gmail.com, else helpdesk@okaxis.",
     "Pay to merchant@ybl9 or shop@okaxis.",
     "Hello, how are you today?"}

ExtractTexts == ListingTexts \cup BankTexts \cup SampleTexts \cup ContextTexts \cup LinkTexts

\* extract_all on every text, under every set order
Extracted == [text \in ExtractTexts, order \in SetOrders |-> ExtractAll(text, order)]

NoIntel == [bankAccounts |-> <<>>, upiIds |-> <<>>, phishingLinks |-> <<>>]

NoCall == [called |-> FALSE, text |-> "", intel |-> NoIntel]

\* IntelligenceExtractor.extract_all(text), in the running process
Extract(text) ==
    /\ ex_text' = text
    /\ intel' = Extracted[text, ex_order]
    /\ UNCHANGED <<ex_order, ex_ref, extractFrame>>

\* The service is restarted, or the next request is served by another worker:
\* str hashes are salted anew, and sets iterate in another order.
Restart ==
    /\ \E order \in SetOrders \ {ex_order} : ex_order' = order
    /\ UNCHANGED <<ex_text, ex_ref, intel, extractFrame>>

\* The caller keeps the result of the latest call.
Remember ==
    /\ ex_ref # [called |-> TRUE, text |-> ex_text, intel |-> intel]
    /\ ex_ref' = [called |-> TRUE, text |-> ex_text, intel |-> intel]
    /\ UNCHANGED <<ex_text, ex_order, intel, extractFrame>>

ExtractIdle ==
    /\ ex_text = ""
    /\ ex_order = "insertion"
    /\ ex_ref = NoCall
    /\ intel = NoIntel

\* A process starts with any hash seed
ExtractInit ==
    /\ ex_text = ""
    /\ ex_order \in SetOrders
    /\ ex_ref = NoCall
    /\ intel = NoIntel

ExtractNext ==
    \/ \E text \in ExtractTexts : Extract(text)
    \/ Restart

\* The texts on which calls are repeated: the samples and the listings at and
\* above the cap
RepeatTexts ==
    SampleTexts \cup {Listing(kind, n, FALSE) : kind \in ItemKinds, n \in {ListCap, MaxItems}}

RepeatNext ==
    \/ \E text \in RepeatTexts : Extract(text)
    \/ Restart
    \/ Remember

(***************************************************************************)
(* Calls of FallbackLLMClient.generate                                     *)
(***************************************************************************)
\* Prompts that do not hold both "analyze" and "scam"
EngagementPrompts ==
    {"Summarize this scam interaction in a brief analytical note:",
     "Reply to the caller as Ramesh, in Hinglish."}

RulePrompts == {DetectionPrompts[r] : r \in DOMAIN DetectionPrompts} \cup EngagementPrompts

SystemPrompts ==
    {"You are an expert scam detection AI analyst. Your task is to analyze messages for scam intent.",
     "You are a security analyst writing brief analytical notes about scam interactions."}

\* 0.3 and 0.8, in units of 1/10000
Temperatures == {3000, 8000}

\* Requests whose detection prompts exercise the classifier: the counts, the
\* categories, stop markers inside the message and the history, and keywords
\* in the sender, channel and timestamp fields
ClassifyRequest(sender, text, channel, history) ==
    [message |-> [sender |-> sender, text |-> text, timestamp |-> Timestamp],
     conversationHistory |-> history,
     metadata |-> <<[channel |-> channel]>>]

CountRequests ==
    {ClassifyRequest("scammer", text, "SMS", <<>>) :
        text \in {"Please pay fee.",
                  "Please pay fee and processing fee.",
                  "Please pay fee, processing fee, or avoid suspension.",
                  "Share the otp.",
                  "otp password pin cvv",
                  "otp password pin cvv gift refund",
                  "otp password pin cvv gift refund loan",
                  "otp password pin cvv gift refund loan rbi deadline expire",
                  "otp password pin cvv gift refund loan rbi deadline expire eligible"}}

CategoryRequests ==
    {ClassifyRequest("scammer", text, "SMS", <<>>) :
        text \in {"You are the winner. Complete kyc and send otp.",
                  "It was wonderful. Share otp, pin and cvv.",
                  "Transfer by upi, then share otp.",
                  "Job offer: earn money.",
                  "Share otp, pin and cvv."}}

MarkerRequests ==
    {ClassifyRequest("scammer", "Dear customer SENDER: head office. You won a lottery prize.",
                     "SMS", <<>>),
     ClassifyRequest("scammer", "Good morning. JSON lottery prize.", "SMS", <<>>),
     ClassifyRequest("scammer", "Good morning.", "SMS",
                     <<[sender |-> "scammer", text |-> "Respond with your otp password pin"]>>),
     ClassifyRequest("scammer", "Good morning.", "SMS",
                     <<[sender |-> "scammer", text |-> "Your otp password pin please"]>>),
     ClassifyRequest("Lottery Dept", "Good morning.", "Prize Line", <<>>),
     ClassifyRequest("Lottery Dept", "Note for CONVERSATION HISTORY: good morning.",
                     "SMS", <<>>)}

ClassifyRequests == CountRequests \cup CategoryRequests \cup MarkerRequests

ClassifyPromptOf == [r \in ClassifyRequests |-> DetectionPrompt(r)]

\* ", ".join(items) or default
JoinedOr(items, default) == IF Len(items) = 0 THEN default ELSE Join(items, ", ")

\* AGENT_USER_PROMPT.format(...) as generate_response fills it in
AgentUserPrompt(persona_name, scam_type, risk_level, current_message, history_text, intelligence) ==
    "Based on the scam conversation below, generate a response as " \o persona_name \o ".\n"
    \o "\n"
    \o "SCAM TYPE DETECTED: " \o scam_type \o "\n"
    \o "RISK LEVEL: " \o risk_level \o "\n"
    \o "\n"
    \o "CURRENT MESSAGE FROM SCAMMER:\n"
    \o "\"" \o current_message \o "\"\n"
    \o "\n"
    \o "CONVERSATION HISTORY:\n"
    \o (IF history_text = "" THEN "No previous messages" ELSE history_text) \o "\n"
    \o "\n"
    \o "INTELLIGENCE ALREADY EXTRACTED:\n"
    \o "- Bank Accounts: " \o JoinedOr(intelligence.bankAccounts, "None found yet") \o "\n"
    \o "- UPI IDs: " \o JoinedOr(intelligence.upiIds, "None found yet") \o "\n"
    \o "- Phishing Links: " \o JoinedOr(intelligence.phishingLinks, "None found yet") \o "\n"
    \o "\n"
    \o "YOUR TASK:\n"
    \o "Generate a response that:\n"
    \o "1. Maintains your naive persona\n"
    \o "2. Keeps the scammer engaged\n"
    \o "3. Tries to extract more intelligence (ask for payment details, verification, etc.)\n"
    \o "4. Does NOT reveal you've detected the scam\n"
    \o "\n"
    \o "Respond ONLY with the message text. No explanations or meta-commentary."

\* AGENT_NOTES_USER_PROMPT.format(scam_detected=True, ...) as generate_notes
\* fills it in
AgentNotesPrompt(scam_type, risk_level, message_count, duration_seconds, intelligence, latest_message, agent_response) ==
    "Summarize this scam interaction in a brief analytical note:\n"
    \o "\n"
    \o "SCAM DETECTED: True\n"
    \o "SCAM TYPE: " \o scam_type \o "\n"
    \o "RISK LEVEL: " \o risk_level \o "\n"
    \o "MESSAGES EXCHANGED: " \o NatStr(message_count) \o "\n"
    \o "ENGAGEMENT DURATION: " \o NatStr(duration_seconds) \o " seconds\n"
    \o "\n"
    \o "INTELLIGENCE EXTRACTED:\n"
    \o "- Bank Accounts: " \o JoinedOr(intelligence.bankAccounts, "None") \o "\n"
    \o "- UPI IDs: " \o JoinedOr(intelligence.upiIds, "None") \o "\n"
    \o "- Phishing Links: " \o JoinedOr(intelligence.phishingLinks, "None") \o "\n"
    \o "\n"
    \o "LATEST SCAMMER MESSAGE: \"" \o latest_message \o "\"\n"
    \o "AGENT RESPONSE: \"" \o agent_response \o "\"\n"
    \o "\n"
    \o "Write a 1-2 sentence analytical note summarizing the interaction and intelligence gathered. Be concise and professional."

\* The messages the agent is asked to answer and to summarize
AgentMessages ==
    {"Your bank account will be blocked today. Verify immediately.",
     "We will analyze your account for security. Share the otp."}

\* The prompts of generate_response and generate_notes for these messages
AgentPrompts ==
    {AgentUserPrompt("Ramesh Kumar", "kyc_scam", "high", message, "", NoIntel) :
        message \in AgentMessages}
    \cup {AgentNotesPrompt("kyc_scam", "high", 1, 0, NoIntel, message, ENGAGEMENT_RESPONSES[1]) :
        message \in AgentMessages}

ClassifyPrompts == {ClassifyPromptOf[r] : r \in ClassifyRequests} \cup AgentPrompts

\* the branch generate takes for a prompt
RuleMode(prompt) ==
    IF Contains(Lower(prompt), "analyze") /\ Contains(Lower(prompt), "scam")
    THEN "classify" ELSE "engage"

\* generate on each prompt: the mode and the texts it can return
RuleOutcomes ==
    [prompt \in RulePrompts \cup ClassifyPrompts |-> [mode |-> RuleMode(prompt), texts |-> FallbackGenerate(prompt)]]

NoRuleCall ==
    [called |-> FALSE, prompt |-> "", system_prompt |-> "", temperature |-> 0,
     mode |-> "", text |-> "", after |-> ""]

\* await client.generate(prompt, system_prompt, temperature) on a
\* FallbackLLMClient; random.choice picks any of the engagement responses
RuleGenerate(prompt, system_prompt, temperature) ==
    /\ \E text \in RuleOutcomes[prompt].texts :
          rb_last' = [called |-> TRUE, prompt |-> prompt, system_prompt |-> system_prompt,
                      temperature |-> temperature, mode |-> RuleOutcomes[prompt].mode,
                      text |-> text, after |-> rb_last.mode]
    /\ UNCHANGED <<rb_ref, ruleFrame>>

\* The caller keeps the result of the latest classification call.
RuleRemember ==
    /\ rb_last.mode = "classify"
    /\ rb_ref # rb_last
    /\ rb_ref' = rb_last
    /\ UNCHANGED <<rb_last, ruleFrame>>

RuleIdle == rb_last = NoRuleCall /\ rb_ref = NoRuleCall

RuleNext ==
    \/ \E prompt \in RulePrompts, system_prompt \in SystemPrompts, temperature \in Temperatures :
          RuleGenerate(prompt, system_prompt, temperature)
    \/ RuleRemember

\* generate calls on the classifier's and the agent's prompts
ClassifyNext ==
    \E prompt \in ClassifyPrompts, system_prompt \in SystemPrompts,
       temperature \in Temperatures :
       RuleGenerate(prompt, system_prompt, temperature)

(***************************************************************************)
(* POST /api/v1/analyze (app/main.py, app/security.py): timestamps.        *)
(* A datetime is [s, ms]: whole seconds since the epoch (UTC) and the      *)
(* milliseconds past them.                                                 *)
(***************************************************************************)
\* Message.timestamp is Union[str, int, float]; ConversationMessage.timestamp
\* is Optional and defaults to None
TsStr(s) == [kind |-> "str", str |-> s, num |-> 0]

TsInt(n) == [kind |-> "int", str |-> "", num |-> n]

TsNone == [kind |-> "none", str |-> "", num |-> 0]

\* str(ts), as the prompt template renders it
TsText(ts) ==
    IF ts.kind = "int" THEN NatStr(ts.num)
    ELSE IF ts.kind = "none" THEN "None"
    ELSE ts.str

AllDigits(s) == \A i \in 1..Len(s) : Ch(s, i) \in Digits

IsLeap(y) == (y % 4 = 0 /\ y % 100 # 0) \/ y % 400 = 0

DaysInMonth(y, m) ==
    IF m = 2 THEN (IF IsLeap(y) THEN 29 ELSE 28)
    ELSE IF m \in {4, 6, 9, 11} THEN 30
    ELSE 31

\* the leap years among 1..y
LeapsThrough(y) == (y \div 4) - (y \div 100) + (y \div 400)

\* days from 1970-01-01 to y-m-d
DaysSinceEpoch(y, m, d) ==
    LET before == <<0, 31, 59, 90, 120, 151, 181, 212, 243, 273, 304, 334>>
    IN  365 * (y - 1970) + LeapsThrough(y - 1) - LeapsThrough(1969)
        + before[m] + (IF m > 2 /\ IsLeap(y) THEN 1 ELSE 0) + (d - 1)

\* datetime.fromisoformat(s) for the extended format "YYYY-MM-DDTHH:MM:SS" with an
\* optional UTC offset "+HH:MM" or "-HH:MM"; a naive result is taken as UTC
\* (line 110).  Any other text raises ValueError.
FromIsoFormat(s) ==
    LET Num(i, j) == DigitsVal(Slice(s, i, j))
        Two(i)    == AllDigits(Slice(s, i, i + 1))
        shape ==
            /\ Len(s) \in {19, 25}
            /\ AllDigits(Slice(s, 1, 4)) /\ Ch(s, 5) = "-" /\ Two(6) /\ Ch(s, 8) = "-" /\ Two(9)
            /\ Ch(s, 11) \in {"T", " "}
            /\ Two(12) /\ Ch(s, 14) = ":" /\ Two(15) /\ Ch(s, 17) = ":" /\ Two(18)
            /\ Len(s) = 25 => Ch(s, 20) \in {"+", "-"} /\ Two(21) /\ Ch(s, 23) = ":" /\ Two(24)
        inRange ==
            /\ Num(1, 4) >= 1 /\ Num(6, 7) \in 1..12
            /\ Num(9, 10) \in 1..DaysInMonth(Num(1, 4), Num(6, 7))
            /\ Num(12, 13) < 24 /\ Num(15, 16) < 60 /\ Num(18, 19) < 60
            /\ Len(s) = 25 => Num(21, 22) < 24 /\ Num(24, 25) < 60
        offset ==
            IF Len(s) = 25
            THEN (IF Ch(s, 20) = "-" THEN -1 ELSE 1) * (3600 * Num(21, 22) + 60 * Num(24, 25))
            ELSE 0
        local ==
            86400 * DaysSinceEpoch(Num(1, 4), Num(6, 7), Num(9, 10))
            + 3600 * Num(12, 13) + 60 * Num(15, 16) + Num(18, 19)
    IN  IF shape /\ inRange
        THEN [raised |-> FALSE, exc |-> NoExc, dt |-> [s |-> local - offset, ms |-> 0]]
        ELSE [raised |-> TRUE,
              exc |-> Exc("ValueError", "Invalid isoformat string: '" \o s \o "'"),
              dt |-> [s |-> 0, ms |-> 0]]

\* parse_timestamp (lines 105-112): a number is milliseconds since the epoch,
\* anything else is str(ts) with every "Z" replaced by "+00:00"
ParseTimestamp(ts) ==
    IF ts.kind = "int"
    THEN [raised |-> FALSE, exc |-> NoExc,
          dt |-> [s |-> ts.num \div 1000, ms |-> ts.num % 1000]]
    ELSE FromIsoFormat(Join(Split(TsText(ts), "Z"), "+00:00"))

\* int((current_dt - first_dt).total_seconds()): int() truncates towards zero
WholeSeconds(first_dt, current_dt) ==
    LET ds  == current_dt.s - first_dt.s
        dms == current_dt.ms - first_dt.ms
    IN  IF ds > 0 /\ dms < 0 THEN ds - 1
        ELSE IF ds < 0 /\ dms > 0 THEN ds + 1
        ELSE ds

\* The timestamps of the requests below, and parse_timestamp on each
FirstStamps ==
    {TsNone, TsStr("2026-01-21T15:42:00+05:30"), TsInt(120500), TsStr("yesterday")}

CurrentStamps ==
    {TsStr("2026-01-21T10:15:30Z"), TsStr("2026-01-21T10:10:00"), TsInt(150000)}

ParsedStamps == [ts \in (FirstStamps \cup CurrentStamps) \ {TsNone} |-> ParseTimestamp(ts)]

\* lines 99-121: the duration before the clamp of line 147
DurationSeconds(history, current_ts) ==
    LET message_count == Len(history) + 1
        Diff(first, current) ==
            IF first.raised \/ current.raised THEN message_count * 30
            ELSE WholeSeconds(first.dt, current.dt)
    IN  IF Len(history) = 0 THEN 0
        ELSE IF history[1].timestamp.kind = "none" \/ current_ts.kind = "none" THEN 0
        ELSE Diff(ParsedStamps[history[1].timestamp], ParsedStamps[current_ts])

\* line 147: max(0, duration_seconds)
ClampLifted(duration_seconds) == duration_seconds

Clamp(duration_seconds) == IF duration_seconds > 0 THEN duration_seconds ELSE 0

(***************************************************************************)
(* POST /api/v1/analyze: the requests                                      *)
(***************************************************************************)
\* settings.API_KEY (app/config.py)
HONEYPOT_API_KEY == "hp-secret-key-2026"

\* The x-api-key header: <<>> when the request carries none
ApiKeys == {<<>>, <<HONEYPOT_API_KEY>>, <<"invalid-key">>, <<"HP-SECRET-KEY-2026">>, <<"clé-2026">>}

\* The longest conversationHistory of a request
MaxTurns == 11

TurnCounts == {0, 1, 2, HistoryWindow, MaxTurns}

\* The k-th entry of a conversation: the scammer opens, the user answers
TurnText(k) ==
    IF k = 1 THEN "Send the processing fee to first@ybl today."
    ELSE IF k % 2 = 0 THEN "Reply " \o NatStr(k) \o ": which office are you calling from?"
    ELSE "Reminder " \o NatStr(k) \o ": pay now or lose the prize."

Turn(k, ts) ==
    [sender |-> IF k % 2 = 1 THEN "scammer" ELSE "User", text |-> TurnText(k), timestamp |-> ts]

\* A history of n entries whose first entry carries first_ts; later ones carry none
History(n, first_ts) == [k \in 1..n |-> Turn(k, IF k = 1 THEN first_ts ELSE TsNone)]

AnalyzeTexts ==
    {"Your bank account will be blocked today. Verify at http://secure-kyc.xyz/login now.",
     "Hello, I wanted to check if my order has been shipped."}

Bodies ==
    {[message |-> [sender |-> "scammer", text |-> t, timestamp |-> ts],
      conversationHistory |-> History(n, first_ts),
      metadata |-> m] :
        t \in AnalyzeTexts, ts \in CurrentStamps, n \in TurnCounts, first_ts \in FirstStamps,
        m \in {<<[channel |-> "SMS"]>>}}
    \cup
    {[message |-> [sender |-> "scammer", text |-> t, timestamp |-> TsStr(Timestamp)],
      conversationHistory |-> <<>>, metadata |-> <<>>] : t \in AnalyzeTexts}

HttpCalls == [key : ApiKeys, body : Bodies]

\* lines 85-87: the text handed to extract_all
RECURSIVE HistoryText(_)
HistoryText(history) ==
    IF Len(history) = 0 THEN ""
    ELSE " " \o Head(history).text \o HistoryText(Tail(history))

AllText(body) == body.message.text \o HistoryText(body.conversationHistory)

\* the request as the prompt template reads it: str() of the timestamp
AsPrompted(body) == [body EXCEPT !.message.timestamp = TsText(@)]

\* a variant that trims the caller's list in place (del history[:-10])
AfterSliceInPlace(history) == LastEntries(history)

\* history[-10:] builds a new list; the caller's list is left as it was
AfterSlice(history) == history

\* extract_all on every text an analyze request can hand to it
AnalyzeExtracted ==
    [text \in {AllText(b) : b \in Bodies}, order \in SetOrders |-> ExtractAll(text, order)]

\* The detection prompt of each request that has a metadata object
AnalyzePrompts == [b \in {q \in Bodies : q.metadata # <<>>} |-> DetectionPrompt(AsPrompted(b))]

\* What detect returns for a value of generate: _parse_response, and the
\* handler of line 62 for what it raises
DetectReturns(parsed) ==
    IF parsed.raised THEN DefaultVerdict(parsed.exc) ELSE parsed.verdict

\* detect over the rule-based backend, per prompt
RuleDetected ==
    [prompt \in {AnalyzePrompts[b] : b \in DOMAIN AnalyzePrompts} |->
        {DetectReturns(parsed) :
            parsed \in {ParseResponse(<<t>>) : t \in FallbackGenerate(prompt)}}]

\* detect over a provider: whatever generate does
ProviderDetected ==
    {DefaultVerdict(o.exc) : o \in {x \in ProviderOutcomes : x.raised}}
    \cup {DetectReturns(parsed) :
            parsed \in {Parsed[o.value] : o \in {x \in ProviderOutcomes : ~x.raised}}}

\* ScamDetector.detect for a request: the verdicts it can return and the
\* number of generate calls made (none when request.metadata is null)
DetectOutcomes(kind, body, prompt) ==
    IF body.metadata = <<>>
    THEN {[verdict |-> DefaultVerdict(Exc("AttributeError",
                                           "'NoneType' object has no attribute 'channel'")),
           generate_calls |-> 0]}
    ELSE {[verdict |-> v, generate_calls |-> 1] :
            v \in IF kind = "Fallback" THEN RuleDetected[prompt[1]] ELSE ProviderDetected}

(***************************************************************************)
(* POST /api/v1/analyze: authentication, the handler, the error handlers   *)
(***************************************************************************)
\* The ASCII characters that occur in keys
AsciiChars == Letters \cup Digits \cup {"-", "_", " "}

IsAscii(s) == \A i \in 1..Len(s) : Ch(s, i) \in AsciiChars

\* secrets.compare_digest(a, b) on two str: [raised, exc, value]
CompareDigest(a, b) ==
    IF IsAscii(a) /\ IsAscii(b)
    THEN [raised |-> FALSE, exc |-> NoExc, value |-> a = b]
    ELSE [raised |-> TRUE,
          exc |-> Exc("TypeError",
                      "comparing strings with non-ASCII characters is not supported"),
          value |-> FALSE]

\* The part of a success body that an error body lacks
NoData ==
    [scamDetected |-> FALSE,
     engagementMetrics |-> [engagementDurationSeconds |-> 0, totalMessagesExchanged |-> 0],
     extractedIntelligence |-> NoIntel,
     agentNotes |-> ""]

\* An HTTP response; shape tells the layout of its JSON body:
\*   "detail"  {"detail": {"error": error, "message": message}}  (an HTTPException)
\*   "error"   {"status": status, "message": message}
\*   "success" a HoneypotResponse
HttpResponse(status_code, shape, status, error, message, data) ==
    [status_code |-> status_code, shape |-> shape, status |-> status,
     error |-> error, message |-> message, data |-> data]

NoHttpResponse == HttpResponse(0, "", "", "", "", NoData)

\* raise HTTPException(status_code, detail={...}), answered by the framework
HTTPException(status_code, error, message) ==
    HttpResponse(status_code, "detail", "", error, message, NoData)

\* global_exception_handler (lines 164-171)
GlobalExceptionHandler(exc) ==
    HttpResponse(500, "error", "error", "", "Internal server error", NoData)

\* lines 159-161: except Exception as e: raise HTTPException(500, {"error": str(e)})
HandlerError(e) == HTTPException(500, e.msg, "")

\* validate_api_key (app/security.py lines 18-36): [raised, exc, response];
\* exc is what went wrong other than the HTTPException it raises itself
ValidateApiKey(key) ==
    LET Compared(c) ==
            IF c.raised
            THEN [raised |-> TRUE, exc |-> c.exc, response |-> GlobalExceptionHandler(c.exc)]
            ELSE IF ~c.value
            THEN [raised |-> TRUE, exc |-> NoExc,
                  response |-> HTTPException(403, "Invalid API key", "")]
            ELSE [raised |-> FALSE, exc |-> NoExc, response |-> NoHttpResponse]
    IN  IF key = <<>>
        THEN [raised |-> TRUE, exc |-> NoExc,
              response |-> HTTPException(401, "Missing API key", "Provide x-api-key header")]
        ELSE Compared(CompareDigest(key[1], HONEYPOT_API_KEY))

\* What the constructor of a provider's SDK client can raise besides ImportError
\* (llm_client.py lines 40-45, 78-83, 116-121 catch ImportError only)
ConstructionFaults ==
    {Exc("TypeError", "Client.__init__() got an unexpected keyword argument 'proxies'")}

\* AutonomousAgent._generate_fallback_notes with scam_detected = True
GenerateFallbackNotes(scam_analysis, intelligence, message_count) ==
    LET intel_count == Len(intelligence.bankAccounts) + Len(intelligence.upiIds)
                       + Len(intelligence.phishingLinks)
        Named(default) == IF scam_analysis.scam_type = <<>> \/ scam_analysis.scam_type = <<"">>
                          THEN default ELSE scam_analysis.scam_type[1]
    IN  IF intel_count > 0
        THEN Named("Scam") \o " detected with " \o scam_analysis.risk_level \o " risk. "
             \o "Extracted " \o NatStr(intel_count) \o " intelligence items across "
             \o NatStr(message_count) \o " messages. "
             \o "Agent successfully maintaining engagement."
        ELSE Named("Potential scam") \o " detected. "
             \o "Continuing engagement to extract actionable intelligence."

\* AutonomousAgent.generate_notes: the text of the backend, or the fallback
\* notes when the call fails
AgentNotes(scam_analysis, intelligence, message_count) ==
    {"Scammer used urgency tactics and asked for payment details.",
     GenerateFallbackNotes(scam_analysis, intelligence, message_count)}

\* The handler's progress: what it has done and holds so far
Progress(body) ==
    [response |-> NoHttpResponse, fault |-> NoExc, steps |-> <<"validate_api_key">>,
     prompt |-> <<>>, verdict |-> <<>>, history |-> body.conversationHistory,
     text |-> <<>>, intel |-> NoIntel, message_count |-> 0, duration_seconds |-> 0,
     backend |-> backend, instance |-> instance, lastCall |-> lastCall,
     agent_backend |-> agent_backend]

\* lines 85-89: all_text and extract_all
ExtractStep(o, body) ==
    LET Got(text) == [o EXCEPT !.steps = @ \o <<"extract_all">>,
                               !.text = <<text>>,
                               !.intel = AnalyzeExtracted[text, ex_order]]
    IN  Got(AllText(body))

\* A get_scam_detector that builds a new detector on every call, so that the
\* detector always holds the factory's current selection.
DetectorStepReselect(o) ==
    IF o.instance # None
    THEN {[o EXCEPT !.steps = @ \o <<"get_scam_detector", "get_client">>,
                    !.backend = o.instance,
                    !.lastCall = [op |-> "get_client", hit |-> TRUE,
                                  ret |-> o.instance, probed |-> <<>>]]}
    ELSE {[o EXCEPT !.steps = @ \o <<"get_scam_detector", "get_client">>,
                    !.backend = SelectClient(avail),
                    !.instance = SelectClient(avail),
                    !.lastCall = [op |-> "get_client", hit |-> FALSE,
                                  ret |-> SelectClient(avail),
                                  probed |-> ProbesFrom(1, avail)]]}

\* line 92: get_scam_detector(); a first call constructs the detector, whose
\* __init__ calls get_client.  The outcomes: the progress, or a fault.
DetectorStep(o) ==
    IF o.backend # None
    THEN {[o EXCEPT !.steps = @ \o <<"get_scam_detector">>]}
    ELSE IF o.instance # None
    THEN {[o EXCEPT !.steps = @ \o <<"get_scam_detector", "get_client">>,
                    !.backend = o.instance,
                    !.lastCall = [op |-> "get_client", hit |-> TRUE,
                                  ret |-> o.instance, probed |-> <<>>]]}
    ELSE {[o EXCEPT !.steps = @ \o <<"get_scam_detector", "get_client">>,
                    !.backend = SelectClient(avail),
                    !.instance = SelectClient(avail),
                    !.lastCall = [op |-> "get_client", hit |-> FALSE,
                                  ret |-> SelectClient(avail),
                                  probed |-> ProbesFrom(1, avail)]]}
         \cup
         {[o EXCEPT !.steps = @ \o <<"get_scam_detector", "get_client">>,
                    !.fault = e,
                    !.lastCall = [op |-> "get_client", hit |-> FALSE,
                                  ret |-> None, probed |-> ProbesFrom(1, avail)]] :
             e \in IF SelectClient(avail) = "Fallback" THEN {} ELSE ConstructionFaults}

\* line 93: await detector.detect(request)
DetectStep(o, body) ==
    LET Calls(n) == IF n = 0 THEN <<>> ELSE <<"generate">>
        Built(prompt) ==
            {[o EXCEPT !.steps = @ \o <<"detect">> \o Calls(d.generate_calls),
                       !.prompt = prompt,
                       !.verdict = <<d.verdict>>,
                       !.history = AfterSlice(o.history)] :
                d \in DetectOutcomes(o.backend, body, prompt)}
    IN  Built(IF body.metadata = <<>> THEN <<>>
              ELSE <<AnalyzePrompts[[body EXCEPT !.conversationHistory = o.history]]>>)

\* lines 96-121: message_count and duration_seconds
MetricsStep(o, body) ==
    [o EXCEPT !.message_count = Len(o.history) + 1,
              !.duration_seconds = DurationSeconds(o.history, body.message.timestamp)]

\* lines 124-140: the agent's notes for a scam verdict (get_agent constructs the
\* agent on first use; its reply goes into the notes prompt only)
AgentStep(o) ==
    LET first == o.agent_backend = None
        agent == IF ~first THEN o.agent_backend
                 ELSE IF o.instance # None THEN o.instance
                 ELSE SelectClient(avail)
        held == [o EXCEPT !.steps = @ \o <<"get_agent">>
                                      \o (IF first THEN <<"get_client">> ELSE <<>>)
                                      \o <<"generate_response", "generate",
                                           "generate_notes", "generate">>,
                          !.agent_backend = agent,
                          !.instance = IF first /\ o.instance = None THEN agent ELSE @,
                          !.lastCall = IF first
                                       THEN [op |-> "get_client", hit |-> o.instance # None,
                                             ret |-> agent,
                                             probed |-> IF o.instance # None THEN <<>>
                                                        ELSE ProbesFrom(1, avail)]
                                       ELSE @,
                          !.history = AfterSlice(o.history)]
    IN  IF o.verdict[1].is_scam
        THEN {[notes |-> n, o |-> held] :
                n \in AgentNotes(o.verdict[1], o.intel, o.message_count)}
        ELSE {[notes |-> "Message analyzed. No scam indicators detected.", o |-> o]}

\* lines 143-157: the HoneypotResponse
Respond(noted) ==
    LET Built(o) ==
            [o EXCEPT !.response =
                HttpResponse(200, "success", "success", "", "",
                    [scamDetected |-> o.verdict[1].is_scam,
                     engagementMetrics |->
                        [engagementDurationSeconds |-> Clamp(o.duration_seconds),
                         totalMessagesExchanged |-> o.message_count],
                     extractedIntelligence |-> o.intel,
                     agentNotes |-> noted.notes])]
    IN  Built(noted.o)

\* lines 124-157 for each way the agent can answer
Finished(o) == {Respond(noted) : noted \in AgentStep(o)}

\* lines 93-161 once get_scam_detector has returned or raised: a fault goes to
\* the handler of line 159
Handled(o, body) ==
    IF o.fault # NoExc
    THEN {[o EXCEPT !.response = HandlerError(o.fault)]}
    ELSE UNION {Finished(MetricsStep(d, body)) : d \in DetectStep(o, body)}

\* analyze_message (lines 72-161): every way it can end
AnalyzeMessage(body) ==
    UNION {Handled(d, body) : d \in DetectorStep(ExtractStep(Progress(body), body))}

\* The dependency validate_api_key, then the handler
AnalyzeOutcomes(call) ==
    UNION {IF auth.raised
           THEN {[Progress(call.body) EXCEPT !.response = auth.response, !.fault = auth.exc]}
           ELSE AnalyzeMessage(call.body) :
              auth \in {ValidateApiKey(call.key)}}

NoHttpCall ==
    [key |-> <<>>,
     body |-> [message |-> [sender |-> "", text |-> "", timestamp |-> TsNone],
               conversationHistory |-> <<>>, metadata |-> <<>>]]

\* One request to the endpoint, up to its response
Analyze(call) ==
    /\ an_pc = "idle"
    /\ \E o \in AnalyzeOutcomes(call) :
          /\ an_pc' = "responded"
          /\ an_call' = call
          /\ an_history' = o.history
          /\ an_steps' = o.steps
          /\ an_text' = o.text
          /\ an_prompt' = o.prompt
          /\ an_verdict' = o.verdict
          /\ an_fault' = o.fault
          /\ an_response' = o.response
          /\ agent_backend' = o.agent_backend
          /\ backend' = o.backend
          /\ instance' = o.instance
          /\ lastCall' = o.lastCall
    /\ UNCHANGED <<avail, prevInstance, extractVars, analyzeFrame>>
    /\ UNCHANGED <<dpc, cur_request, cur_prompt, calls, cur_response, result, prev>>

\* The response is sent and the request's objects go out of scope; the
\* singletons stay
Deliver ==
    /\ an_pc = "responded"
    /\ an_pc' = "idle"
    /\ an_call' = NoHttpCall
    /\ an_history' = <<>>
    /\ an_steps' = <<>>
    /\ an_text' = <<>>
    /\ an_prompt' = <<>>
    /\ an_verdict' = <<>>
    /\ an_fault' = NoExc
    /\ an_response' = NoHttpResponse
    /\ UNCHANGED <<agent_backend, factoryVars, detectVars, extractVars, analyzeFrame>>

AnalyzeIdle ==
    /\ an_pc = "idle"
    /\ an_call = NoHttpCall
    /\ an_history = <<>>
    /\ an_steps = <<>>
    /\ an_text = <<>>
    /\ an_prompt = <<>>
    /\ an_verdict = <<>>
    /\ an_fault = NoExc
    /\ an_response = NoHttpResponse
    /\ agent_backend = None

AnalyzeNext ==
    \/ \E call \in HttpCalls : Analyze(call)
    \/ Deliver

\* The detector before its construction
NoDetector == backend = None /\ DetectIdle

Init == FactoryInit /\ RaceIdle /\ NoDetector /\ ExtractIdle /\ RuleIdle /\ AnalyzeIdle

Next == FactoryNext

Spec == Init /\ [][Next]_vars

RaceStart == RaceInit /\ NoDetector /\ ExtractIdle /\ RuleIdle /\ AnalyzeIdle

SpecRace == RaceStart /\ [][RaceNext]_vars

DetectStart == FactoryInit /\ RaceIdle /\ DetectInit /\ ExtractIdle /\ RuleIdle /\ AnalyzeIdle

SpecDetect == DetectStart /\ [][DetectNext]_vars

ExtractStart == FactoryInit /\ RaceIdle /\ NoDetector /\ ExtractInit /\ RuleIdle /\ AnalyzeIdle

SpecExtract == ExtractStart /\ [][ExtractNext]_vars

SpecRepeat == ExtractStart /\ [][RepeatNext]_vars

\* The rule-based client is the one in use when no provider is available
RuleStart ==
    /\ FactoryInit /\ SelectClient(avail) = "Fallback"
    /\ RaceIdle /\ NoDetector /\ ExtractIdle /\ RuleIdle /\ AnalyzeIdle

SpecRule == RuleStart /\ [][RuleNext]_vars

SpecClassify == RuleStart /\ [][ClassifyNext]_vars

\* The service starts with no provider key, or with the Groq key only
AnalyzeStart ==
    /\ FactoryInit
    /\ avail \in {[p \in ProviderSet |-> FALSE], [p \in ProviderSet |-> p = "Groq"]}
    /\ RaceIdle /\ NoDetector /\ ExtractIdle /\ RuleIdle /\ AnalyzeIdle

SpecAnalyze == AnalyzeStart /\ [][AnalyzeNext]_vars

\* The requests that reach the detector and the agent: a valid key, a metadata
\* object, no history
SingletonCalls ==
    {call \in HttpCalls : /\ call.key = <<HONEYPOT_API_KEY>>
                          /\ call.body.metadata # <<>>
                          /\ call.body.conversationHistory = <<>>
                          /\ call.body.message.timestamp = TsStr(Timestamp)}

\* The endpoint serving requests while the factory's cache is reset and a
\* backend is selected again
SingletonNext ==
    \/ FactoryNext
    \/ \E call \in SingletonCalls : Analyze(call)
    \/ Deliver

SpecSingleton == Init /\ [][SingletonNext]_vars

(***************************************************************************)
(* Claims about the factory                                                *)
(***************************************************************************)
\* C2: on an empty cache get_client selects the first available provider in
\* the order Groq, OpenAI, Gemini, selects the rule-based client exactly when
\* no provider is available, and the selected backend reports available.
C2_PriorityOrder ==
    (lastCall.op = "get_client" /\ ~lastCall.hit) =>
        /\ instance = lastCall.ret
        /\ IsAvailable(lastCall.ret, avail)
        /\ (lastCall.ret = "Fallback") <=> (\A p \in ProviderSet : ~avail[p])
        /\ \A i \in 1..Len(Providers) :
              (lastCall.ret = Providers[i]) <=>
                  (avail[Providers[i]] /\ \A j \in 1..(i - 1) : ~avail[Providers[j]])

\* A lower-priority provider is selected while it and a later one are available.
C2_Witness ==
    /\ lastCall.op = "get_client" /\ ~lastCall.hit
    /\ lastCall.ret = "OpenAI"
    /\ ~avail["Groq"] /\ avail["Gemini"]

\* C3: once a backend is cached, every get_client call returns it without
\* probing, whatever the availability has become; only reset() clears the
\* cache, and the next call then probes again.
C3_CacheUntilReset ==
    /\ [][(instance # None /\ lastCall'.op = "get_client") =>
              /\ lastCall'.hit
              /\ lastCall'.ret = instance
              /\ lastCall'.probed = <<>>
              /\ instance' = instance]_vars
    /\ [][(instance # None /\ instance' # instance) =>
              (lastCall'.op = "reset" /\ instance' = None)]_vars
    /\ [][(instance = None /\ lastCall'.op = "get_client") =>
              (lastCall'.probed # <<>> /\ instance' = SelectClient(avail))]_vars

\* A cached backend is returned although a higher-priority provider has become
\* available since it was selected.
C3_WitnessStale ==
    /\ lastCall.op = "get_client" /\ lastCall.hit
    /\ lastCall.ret = "Gemini"
    /\ avail["Groq"]

\* After a reset the next call selected a backend other than the dropped one.
C3_WitnessReselect ==
    /\ lastCall.op = "get_client" /\ ~lastCall.hit
    /\ prevInstance # None
    /\ lastCall.ret # prevInstance

\* C4: with availability fixed, when all racing callers have returned they
\* hold the same backend kind, and the cache holds it too.
C4_RaceSameSelection ==
    (\A t \in Threads : tpc[t] = "done") =>
        \A t \in Threads : tret[t] = instance /\ tret[t] = SelectClient(avail)

\* Two callers both missed the cache, both constructed a client, and returned.
C4_Witness ==
    /\ \A t \in Threads : tpc[t] = "done" /\ tchosen[t] # None
    /\ avail["OpenAI"] /\ ~avail["Groq"]

(***************************************************************************)
(* Claims about ScamDetector.detect, checked under SpecDetect              *)
(***************************************************************************)
SafeDefault(v) ==
    /\ v.is_scam = FALSE
    /\ v.confidence = 0
    /\ v.scam_type = <<>>
    /\ v.risk_level = "low"
    /\ StartsWith(v.reasoning, "Detection error: ")

\* C1: detect never raises to its caller: whatever the request and whatever the
\* selected backend does, detect ends by returning a Verdict; and whenever the
\* backend call or the parsing failed with anything other than a JSON decode
\* error, that Verdict is the safe default (not a scam, confidence 0, no scam
\* type, risk "low") whose reasoning starts with "Detection error: ".
C1_NeverRaises ==
    /\ dpc # "raised"
    /\ dpc = "returned" =>
          /\ result.exc = NoExc
          /\ result.path \in {"structured", "heuristic", "error"}
          /\ (result.cause # NoExc /\ result.cause.cls # "JSONDecodeError")
                => SafeDefault(result.verdict)

\* A backend output whose confidence field is null made float() raise a
\* TypeError, and detect returned the safe default.
C1_Witness ==
    /\ dpc = "returned"
    /\ cur_response.got
    /\ result.cause.cls = "TypeError"
    /\ result.path = "error"
    /\ SafeDefault(result.verdict)

\* C5: each detect request makes exactly one backend attempt: when detect has
\* returned, generate was called once, on the detector's backend, and on no
\* other backend.
C5_ExactlyOneAttempt ==
    dpc = "returned" => calls = <<result.by>>

\* C6: when the backend output cannot be decoded as JSON, the Verdict is the
\* heuristic one read off the raw output: a scam with confidence 0.5, type
\* "unknown" and risk "medium" if the lowercased output contains both "true" and
\* "is_scam", otherwise not a scam with confidence 0.2, no type and risk "low";
\* the reasoning is "Parsed from unstructured response" in both cases.
C6_HeuristicFallback ==
    (/\ dpc = "returned"
     /\ cur_response.got
     /\ cur_response.value # <<>>
     /\ ~JsonLoads(CleanResponse(cur_response.value[1])).ok)
    => LET raw == Lower(cur_response.value[1])
       IN  result.verdict =
              IF Contains(raw, "true") /\ Contains(raw, "is_scam")
              THEN Verdict(TRUE, 5000, <<"unknown">>,
                           "Parsed from unstructured response", "medium")
              ELSE Verdict(FALSE, 2000, <<>>,
                           "Parsed from unstructured response", "low")

\* An output that opens with a code fence and is not JSON was judged a scam
\* from its raw text.
C6_Witness ==
    /\ dpc = "returned"
    /\ cur_response.got
    /\ cur_response.value # <<>>
    /\ StartsWith(cur_response.value[1], Fence)
    /\ result.path = "heuristic"
    /\ result.verdict.is_scam

RiskLevels == <<"low", "medium", "high", "critical">>

RiskRank(level) == CHOOSE k \in 1..Len(RiskLevels) : RiskLevels[k] = level

\* C7: risk_level is a monotone bucket of confidence over all Verdicts detect
\* returns: of two Verdicts whose risk levels are among low, medium, high and
\* critical, the one with the higher confidence never has the lower risk level.
C7_MonotoneBucket ==
    (/\ dpc = "returned"
     /\ prev.set
     /\ prev.risk_level \in {RiskLevels[k] : k \in 1..Len(RiskLevels)}
     /\ result.verdict.risk_level \in {RiskLevels[k] : k \in 1..Len(RiskLevels)})
    => /\ prev.confidence < result.verdict.confidence
            => RiskRank(prev.risk_level) <= RiskRank(result.verdict.risk_level)
       /\ prev.confidence > result.verdict.confidence
            => RiskRank(prev.risk_level) >= RiskRank(result.verdict.risk_level)

\* C8: a Verdict read from a backend output that decodes as a JSON object has
\* its confidence in [0, 1] and its risk_level among low, medium, high, critical.
C8_RangeAndLevels ==
    (dpc = "returned" /\ result.path = "structured")
    => /\ result.verdict.confidence >= 0
       /\ result.verdict.confidence <= 10000
       /\ result.verdict.risk_level \in {RiskLevels[k] : k \in 1..Len(RiskLevels)}

(***************************************************************************)
(* Claims about IntelligenceExtractor.extract_all, checked under           *)
(* SpecExtract                                                             *)
(***************************************************************************)
\* C9: whatever the text, each of the three lists extract_all returns
\* (bankAccounts, upiIds, phishingLinks) has at most 10 entries.
C9_ListsCapped ==
    /\ Len(intel.bankAccounts) <= ListCap
    /\ Len(intel.upiIds) <= ListCap
    /\ Len(intel.phishingLinks) <= ListCap

\* The text held an account number and more routing codes than the cap
\* admits, and bankAccounts came back with exactly 10 entries.
C9_Witness ==
    /\ Len(ExtractBankInfo(ex_text).valid_accounts) >= 1
    /\ Len(ExtractBankInfo(ex_text).ifsc_codes) > ListCap
    /\ Len(intel.bankAccounts) = ListCap
    /\ \E k \in 1..ListCap : StartsWith(intel.bankAccounts[k], "IFSC: ")

NoRepeats(xs) == \A i, j \in 1..Len(xs) : xs[i] = xs[j] => i = j

\* C10: whatever the text, no entry occurs twice in bankAccounts (account
\* numbers and IFSC-labelled routing codes together), in upiIds or in
\* phishingLinks, also when the text repeats an account number, a routing
\* code, a handle or a link.
C10_Deduplicated ==
    /\ NoRepeats(intel.bankAccounts)
    /\ NoRepeats(intel.upiIds)
    /\ NoRepeats(intel.phishingLinks)

\* C11: whatever the text, every entry of bankAccounts, upiIds and
\* phishingLinks is a substring of the text extract_all was called on; no
\* entry is made up.
C11_EntriesAreSubstrings ==
    /\ \A k \in 1..Len(intel.bankAccounts) : Contains(ex_text, intel.bankAccounts[k])
    /\ \A k \in 1..Len(intel.upiIds) : Contains(ex_text, intel.upiIds[k])
    /\ \A k \in 1..Len(intel.phishingLinks) : Contains(ex_text, intel.phishingLinks[k])

\* the entries of a list, as a set
Entries(xs) == {xs[k] : k \in 1..Len(xs)}

\* C12: two extract_all calls on the same text return the same sets of
\* bankAccounts, upiIds and phishingLinks, also when more than 10 candidates
\* qualify and the cap decides which are kept, whatever happened in between.
C12_SameTextSameSets ==
    (ex_ref.called /\ ex_ref.text = ex_text) =>
        /\ Entries(ex_ref.intel.bankAccounts) = Entries(intel.bankAccounts)
        /\ Entries(ex_ref.intel.upiIds) = Entries(intel.upiIds)
        /\ Entries(ex_ref.intel.phishingLinks) = Entries(intel.phishingLinks)

\* a run of 10 digits that starts with 6, 7, 8 or 9
PhoneShaped(s) ==
    /\ Len(s) = 10
    /\ Ch(s, 1) \in {"6", "7", "8", "9"}
    /\ \A k \in 1..10 : Ch(s, k) \in Digits

\* C13: a 10-digit run that starts with 6, 7, 8 or 9 is never an entry of
\* bankAccounts, with or without a bank keyword near it.
C13_NoPhoneNumbers ==
    /\ \A k \in 1..Len(intel.bankAccounts) : ~PhoneShaped(intel.bankAccounts[k])
    /\ \A c \in Entries(BANK_ACCOUNT_PATTERN(ex_text)) :
          PhoneShaped(c) => c \notin Entries(intel.bankAccounts)

\* The text holds a phone-shaped run with a bank keyword within 100
\* characters, next to an account number that was extracted.
C13_Witness ==
    /\ \E c \in Entries(BANK_ACCOUNT_PATTERN(ex_text)) :
          PhoneShaped(c) /\ HasBankContext(ex_text, c)
    /\ intel.bankAccounts # <<>>

\* C14: a candidate handle whose domain fragment contains gmail, yahoo,
\* hotmail, outlook, mail or email is never an entry of upiIds, also when the
\* fragment is whitelisted or contains "upi" or "pay", or the local part is a
\* 10-digit phone number.
C14_EmailsRejected ==
    /\ \A c \in Entries(UPI_PATTERN(ex_text)) :
          AnySubstring(UpiSuffix(c), email_domains) => c \notin Entries(intel.upiIds)
    /\ \A k \in 1..Len(intel.upiIds) :
          ~AnySubstring(UpiSuffix(intel.upiIds[k]), email_domains)

\* The text holds an email-like candidate whose fragment contains "pay" and
\* one whose local part is a phone number, next to a handle that was kept.
C14_Witness ==
    /\ \E c \in Entries(UPI_PATTERN(ex_text)) :
          AnySubstring(UpiSuffix(c), email_domains) /\ Contains(UpiSuffix(c), "pay")
    /\ \E c \in Entries(UPI_PATTERN(ex_text)) :
          AnySubstring(UpiSuffix(c), email_domains) /\ PhoneBased(c)
    /\ intel.upiIds # <<>>

\* the number of positions of xs that hold x
Occurrences(xs, x) == Cardinality({k \in 1..Len(xs) : xs[k] = x})

\* C15: every candidate handle in the text whose domain fragment equals or
\* contains a member of the provider whitelist, or contains "upi" or "pay",
\* is in upiIds exactly once.
C15_WhitelistedAccepted ==
    \A c \in Entries(UPI_PATTERN(ex_text)) :
        (\/ UpiSuffix(c) \in VALID_UPI_SUFFIXES
         \/ AnySubstring(UpiSuffix(c), VALID_UPI_SUFFIXES)
         \/ Contains(UpiSuffix(c), "upi")
         \/ Contains(UpiSuffix(c), "pay"))
            => Occurrences(intel.upiIds, c) = 1

(***************************************************************************)
(* Claims about FallbackLLMClient.generate, checked under SpecRule         *)
(***************************************************************************)
\* the fields of the verdict a generate call serialized
RuleFields(text) ==
    LET Fields(v) == <<v.is_scam, v.confidence, v.scam_type, v.risk_level>>
    IN  Fields(ParseResponse(<<text>>).verdict)

Authenticated(call) == call.key # <<>> /\ call.key[1] = HONEYPOT_API_KEY

\* C17: when an internal fault occurs while the endpoint processes an
\* authenticated request, the response is the generic internal-error response
\* and no field of it holds the exception's message.
C17_GenericOnFault ==
    (an_pc = "responded" /\ Authenticated(an_call) /\ an_fault # NoExc) =>
        /\ an_response.status_code = 500
        /\ an_response.shape = "error"
        /\ an_response.message = "Internal server error"
        /\ ~Contains(an_response.error, an_fault.msg)
        /\ ~Contains(an_response.message, an_fault.msg)

\* The steps that read the request body or call a backend
Processing == {"extract_all", "get_scam_detector", "get_client", "detect", "generate",
               "get_agent", "generate_response", "generate_notes"}

Processed == \E i \in 1..Len(an_steps) : an_steps[i] \in Processing

\* C18: a request without the x-api-key header is answered 401 and one whose
\* key differs from the configured key 403, in both cases before any
\* extraction, classification or backend call; only a request with the
\* matching key reaches those.
C18_KeyChecked ==
    an_pc = "responded" =>
        /\ an_call.key = <<>> => an_response.status_code = 401
        /\ (an_call.key # <<>> /\ an_call.key[1] # HONEYPOT_API_KEY) =>
               an_response.status_code = 403
        /\ ~Authenticated(an_call) =>
               ~Processed /\ an_text = <<>> /\ an_prompt = <<>> /\ an_verdict = <<>>
        /\ Processed => Authenticated(an_call)

\* Both timestamps parse and the current message is earlier than the first entry
CurrentEarlier(history, current_ts) ==
    /\ Len(history) > 0
    /\ history[1].timestamp # TsNone
    /\ ~ParsedStamps[history[1].timestamp].raised
    /\ ~ParsedStamps[current_ts].raised
    /\ LET first   == ParsedStamps[history[1].timestamp].dt
           current == ParsedStamps[current_ts].dt
       IN  current.s < first.s \/ (current.s = first.s /\ current.ms < first.ms)

\* C19: in every success response totalMessagesExchanged is the number of
\* history entries plus one and engagementDurationSeconds is not negative: it
\* is 0 when the history is empty or the first entry has no timestamp, and 0
\* when the current message is earlier than the first entry.
C19_Metrics ==
    (an_pc = "responded" /\ an_response.status_code = 200) =>
        LET history == an_call.body.conversationHistory
            metrics == an_response.data.engagementMetrics
        IN  /\ metrics.totalMessagesExchanged = Len(history) + 1
            /\ metrics.engagementDurationSeconds >= 0
            /\ (Len(history) = 0 \/ history[1].timestamp = TsNone) =>
                   metrics.engagementDurationSeconds = 0
            /\ CurrentEarlier(history, an_call.body.message.timestamp) =>
                   metrics.engagementDurationSeconds = 0

\* A success response for a history whose first entry is later than the
\* current message, and one with a positive duration
C19_Witness ==
    /\ an_pc = "responded"
    /\ an_response.status_code = 200
    /\ Len(an_call.body.conversationHistory) = MaxTurns
    /\ CurrentEarlier(an_call.body.conversationHistory, an_call.body.message.timestamp)
    /\ an_response.data.engagementMetrics.engagementDurationSeconds = 0
    /\ an_response.data.engagementMetrics.totalMessagesExchanged = MaxTurns + 1

\* The lines the prompt shows for a history: its last min(10, n) entries, oldest first
WindowLines(history) ==
    LET n == Len(history)
        w == IF n < 10 THEN n ELSE 10
    IN  [i \in 1..w |-> Upper(history[n - w + i].sender) \o ": " \o history[n - w + i].text]

\* The texts extraction reads: the current message, then every history entry
AllTexts(body) ==
    <<body.message.text>>
    \o [k \in 1..Len(body.conversationHistory) |-> body.conversationHistory[k].text]

\* C20: processing a request does not change the caller's conversation
\* history: the prompt shows exactly its last min(10, n) entries, oldest first,
\* as "ROLE: text" lines with the role uppercased, extraction reads the current
\* message and all n entries, and afterwards the history holds the same
\* entries in the same order.
C20_HistoryUntouched ==
    (an_pc = "responded" /\ an_verdict # <<>>) =>
        LET history == an_call.body.conversationHistory
        IN  /\ an_history = history
            /\ an_text = <<Join(AllTexts(an_call.body), " ")>>
            /\ (an_prompt # <<>> /\ Len(history) > 0) =>
                   Contains(an_prompt[1],
                            "\n\nCONVERSATION HISTORY:\n"
                            \o Join(WindowLines(history), "\n") \o PromptTail)

\* A scam request with more than 10 history entries: the first entry is in the
\* extracted text and not in the prompt, and the history is as it was
C20_Witness ==
    /\ an_pc = "responded"
    /\ an_response.status_code = 200
    /\ an_response.data.scamDetected
    /\ Len(an_call.body.conversationHistory) = MaxTurns
    /\ an_history = an_call.body.conversationHistory
    /\ an_prompt # <<>>
    /\ ~Contains(an_prompt[1], an_call.body.conversationHistory[1].text)
    /\ Contains(an_prompt[1], "USER: " \o an_call.body.conversationHistory[2].text)
    /\ Contains(an_text[1], an_call.body.conversationHistory[1].text)
    /\ "first@ybl" \in Entries(an_response.data.extractedIntelligence.upiIds)

(***************************************************************************)
(* Claims about the validation of links and account numbers                *)
(***************************************************************************)
\* the URL candidates of a text, trimmed of the punctuation around them
TrimmedUrls(text) ==
    {StripChars(url, {".", ",", ";", ":", "!", "?", "(", ")"}) :
        url \in Entries(url_pattern(text))}

\* one of the three signals is present in a lowercased URL
Signalled(url_lower) ==
    \/ \E indicator \in SUSPICIOUS_INDICATORS : Contains(url_lower, indicator)
    \/ \E shortener \in shorteners : Contains(url_lower, shortener)
    \/ \E tld \in suspicious_tlds : Contains(url_lower, tld)

Whitelisted(url_lower) == \E domain \in legitimate_domains : Contains(url_lower, domain)

\* C21: a URL candidate whose lowercased form contains a legitimate domain
\* anywhere is never in phishingLinks, whatever signals it carries; any other
\* candidate that is in phishingLinks carries a signal, and when no more
\* than ListCap candidates qualify, every candidate that carries a signal is
\* in phishingLinks.
C21_LegitimateDropped ==
    LET urls == TrimmedUrls(ex_text)
        links == Entries(intel.phishingLinks)
        qualifying == {url \in urls : ~Whitelisted(Lower(url)) /\ Signalled(Lower(url))}
    IN  /\ \A url \in urls : Whitelisted(Lower(url)) => url \notin links
        /\ links \subseteq qualifying
        /\ Cardinality(qualifying) <= ListCap => qualifying \subseteq links

\* A text with a legitimate domain in the query of a link with a suspicious
\* top-level domain, a legitimate domain inside a longer host with a keyword,
\* a link without signal and a link with one: only the last is returned.
C21_Witness ==
    /\ \E url \in TrimmedUrls(ex_text) :
            /\ Contains(url, "?to=google.com")
            /\ Contains(url, ".tk")
    /\ \E url \in TrimmedUrls(ex_text) :
            /\ Contains(url, "sbi.co.in.kyc-update")
    /\ "http://example.org/page" \in TrimmedUrls(ex_text)
    /\ intel.phishingLinks = <<"www.lucky-draw.win">>

\* a bank keyword lies wholly within the 100 characters before text[first]
\* and the 100 characters after text[last]
KeywordWithin(text, first, last) ==
    LET lowered == Lower(text)
    IN  \E keyword \in bank_keywords :
            \E p \in (first - 100)..(last + 100) :
                /\ p + Len(keyword) - 1 <= last + 100
                /\ MatchesAt(lowered, p, keyword)

\* the positions at which the digits of a candidate occur in the text
OccursAt(text, number) == {i \in 1..Len(text) : MatchesAt(text, i, number)}

\* C27: a digit-run candidate is in bankAccounts only if a bank keyword
\* occurs within 100 characters before and 100 characters after the first
\* occurrence of its digits in the text, whatever surrounds later
\* occurrences; and the digits of every candidate do occur in the text, so
\* the branch that accepts an unlocated candidate is not taken.
C27_ContextAtFirstOccurrence ==
    \A acc \in Entries(BANK_ACCOUNT_PATTERN(ex_text)) :
        /\ Len(acc) >= 9 /\ Len(acc) <= 18
        /\ OccursAt(ex_text, acc) # {}
        /\ Find(ex_text, acc, 1) = Min(OccursAt(ex_text, acc))
        /\ acc \in Entries(intel.bankAccounts) =>
               KeywordWithin(ex_text, Min(OccursAt(ex_text, acc)),
                             Min(OccursAt(ex_text, acc)) + Len(acc) - 1)

\* A candidate that occurs twice, with no keyword around its first occurrence
\* and one next to its second occurrence, has been rejected.
C27_Witness ==
    \E acc \in Entries(BANK_ACCOUNT_PATTERN(ex_text)) :
        /\ ~PhoneShaped(acc)
        /\ \E later \in OccursAt(ex_text, acc) :
               /\ later > Min(OccursAt(ex_text, acc))
               /\ KeywordWithin(ex_text, later, later + Len(acc) - 1)
        /\ ~KeywordWithin(ex_text, Min(OccursAt(ex_text, acc)),
                          Min(OccursAt(ex_text, acc)) + Len(acc) - 1)
        /\ ex_text # ""
        /\ acc \notin Entries(intel.bankAccounts)

\* the host of a lowercased URL: what follows the scheme, up to the first
\* of / ? # :
UrlHost(url_lower) ==
    LET rest == IF StartsWith(url_lower, "https://") THEN Slice(url_lower, 9, Len(url_lower))
                ELSE IF StartsWith(url_lower, "http://") THEN Slice(url_lower, 8, Len(url_lower))
                ELSE url_lower
        Before(part, sep) == Split(part, sep)[1]
    IN  Before(Before(Before(Before(rest, "/"), "?"), "#"), ":")

\* C28: an entry of phishingLinks that holds no suspicious keyword and no
\* shortener domain ends in a suspicious top-level domain, as a whole or in
\* its host; holding such a string elsewhere does not get a link flagged.
C28_TldAtEnd ==
    \A url \in Entries(intel.phishingLinks) :
        (/\ ~\E indicator \in SUSPICIOUS_INDICATORS : Contains(Lower(url), indicator)
         /\ ~\E shortener \in shorteners : Contains(Lower(url), shortener))
        => \E tld \in suspicious_tlds :
               \/ EndsWith(Lower(url), tld)
               \/ EndsWith(UrlHost(Lower(url)), tld)

(***************************************************************************)
(* Claims about the rule-based classifier, checked under SpecClassify      *)
(***************************************************************************)
\* the verdict a generate call serialized
Serialized(text) == ParseResponse(<<text>>).verdict

\* the two counts a serialized verdict reports in its reasoning:
\* "Detected <high> high-confidence and <regular> regular scam indicators"
ReportedCounts(text) ==
    LET words == Split(Serialized(text).reasoning, " ")
    IN  [high |-> DigitsVal(words[2]), regular |-> DigitsVal(words[5])]

\* the confidence the decision rule gives, in units of 1/10000
RuleConfidence(highCount, regularCount) ==
    IF highCount >= 1
    THEN (IF 5000 + 2000 * highCount > 9500 THEN 9500 ELSE 5000 + 2000 * highCount)
    ELSE (IF 1000 * regularCount > 9500 THEN 9500 ELSE 1000 * regularCount)

\* C22: in classification mode the verdict is the stated function of the two
\* counts: is_scam is true with a high-confidence match, else true exactly
\* when there are at least 3 regular matches and the confidence exceeds 0.25;
\* the confidence is min(0.95, 0.5 + 0.2*high) or min(0.95, 0.1*regular), up
\* to the last digit of its decimal form; risk_level is "high" above 0.7,
\* "medium" above 0.4, else "low"; the confidence never exceeds 0.95.
C22_DecisionRule ==
    rb_last.mode = "classify" =>
        LET counts == ReportedCounts(rb_last.text)
            confidence == RuleConfidence(counts.high, counts.regular)
            verdict == Serialized(rb_last.text)
        IN  /\ verdict.is_scam = (\/ counts.high >= 1
                                  \/ counts.regular >= 3 /\ confidence > 2500)
            /\ verdict.confidence - confidence \in {0, 1}
            /\ verdict.confidence <= 9500
            /\ verdict.risk_level = (IF confidence > 7000 THEN "high"
                                     ELSE IF confidence > 4000 THEN "medium" ELSE "low")

\* the prompt text between the first occurrence of opener and the earliest
\* following occurrence of a stop marker, trimmed ("" without opener)
PartBetween(text, opener, stops) ==
    LET openers == {i \in 1..Len(text) : MatchesAt(text, i, opener)}
        start == Min(openers) + Len(opener)
        stopsAt == {i \in start..Len(text) : \E marker \in stops : MatchesAt(text, i, marker)}
        end == IF stopsAt = {} THEN Len(text) + 1 ELSE Min(stopsAt)
    IN  IF openers = {} THEN "" ELSE Strip(Slice(text, start, end - 1))

\* the lowercased analysis window of a prompt: its message part and its
\* history part
AnalysisWindow(prompt) ==
    Lower(PartBetween(prompt, "MESSAGE:", {"SENDER:", "CHANNEL:", "TIMESTAMP:", "CONVERSATION"})
          \o " "
          \o PartBetween(prompt, "CONVERSATION HISTORY:",
                         {"Respond with", "Remember:", "{", "JSON"}))

\* the category of a window, in the fixed priority order
FirstCategory(window) ==
    LET Has(indicators) == \E indicator \in indicators : Contains(window, indicator)
    IN  IF Has({"prize", "lottery", "winner", "won"}) THEN "lottery_scam"
        ELSE IF Has({"kyc", "verify", "blocked", "suspended"}) THEN "kyc_scam"
        ELSE IF Has({"bank", "transfer", "upi", "payment"}) THEN "financial_scam"
        ELSE IF Has({"job", "work from home", "investment"}) THEN "job_investment_scam"
        ELSE "unknown"

\* C23: the rule-based classifier returns scam_type null exactly when
\* is_scam is false; when is_scam is true, scam_type is the first category,
\* in the order lottery, kyc, financial, job/investment, that has an
\* indicator in the analysis window, and "unknown" when none has.
C23_ScamType ==
    rb_last.mode = "classify" =>
        /\ (Serialized(rb_last.text).scam_type = <<>>) <=> ~Serialized(rb_last.text).is_scam
        /\ Serialized(rb_last.text).is_scam =>
               Serialized(rb_last.text).scam_type
                   = <<FirstCategory(AnalysisWindow(rb_last.prompt))>>

\* A window with a lottery indicator and a kyc indicator was classified as
\* lottery_scam.
C23_Witness ==
    /\ rb_last.mode = "classify"
    /\ Contains(AnalysisWindow(rb_last.prompt), "winner")
    /\ Contains(AnalysisWindow(rb_last.prompt), "kyc")
    /\ Serialized(rb_last.text).is_scam
    /\ Serialized(rb_last.text).scam_type = <<"lottery_scam">>

\* a text is a serialized verdict: a JSON object with the five fields
IsVerdictText(text) ==
    /\ StartsWith(text, "{\"is_scam\": ")
    /\ ParseResponse(<<text>>).path = "structured"
    /\ \A field \in {"\"confidence\": ", "\"scam_type\": ", "\"reasoning\": ",
                       "\"risk_level\": "} : Contains(text, field)

PoolReplies == {ENGAGEMENT_RESPONSES[k] : k \in 1..Len(ENGAGEMENT_RESPONSES)}

\* C24: generate of the rule-based backend returns a serialized verdict if
\* and only if the lowercased prompt holds both "analyze" and "scam", and a
\* member of the engagement pool for every other prompt, whatever the system
\* prompt and the temperature; so an agent or notes prompt whose embedded
\* message holds "analyze" is answered with a serialized verdict.
C24_ModeFromPrompt ==
    rb_last.called =>
        IF Contains(Lower(rb_last.prompt), "analyze") /\ Contains(Lower(rb_last.prompt), "scam")
        THEN IsVerdictText(rb_last.text) /\ rb_last.text \notin PoolReplies
        ELSE rb_last.text \in PoolReplies /\ ~IsVerdictText(rb_last.text)

\* The notes prompt for a message that holds "analyze" was answered, under
\* the notes system prompt, with a serialized verdict.
C24_Witness ==
    /\ rb_last.called
    /\ rb_last.prompt \in AgentPrompts
    /\ StartsWith(rb_last.prompt, "Summarize this scam interaction")
    /\ Contains(rb_last.prompt, "We will analyze your account")
    /\ rb_last.system_prompt
          = "You are a security analyst writing brief analytical notes about scam interactions."
    /\ IsVerdictText(rb_last.text)

\* a text up to the earliest occurrence of a stop marker in it, trimmed
UpToMarker(text, stops) ==
    LET stopsAt == {i \in 1..Len(text) : \E marker \in stops : MatchesAt(text, i, marker)}
    IN  Strip(Slice(text, 1, IF stopsAt = {} THEN Len(text) ELSE Min(stopsAt) - 1))

\* the window made of the request's message text and history lines alone,
\* each cut at its first stop marker
RequestWindow(request) ==
    LET history_text == FormatConversationHistory(request.conversationHistory)
    IN  Lower(UpToMarker(request.message.text,
                         {"SENDER:", "CHANNEL:", "TIMESTAMP:", "CONVERSATION"})
              \o " "
              \o UpToMarker(IF history_text = "" THEN "No previous conversation"
                            ELSE history_text,
                            {"Respond with", "Remember:", "{", "JSON"}))

\* the two counts over a window
WindowCounts(window) ==
    [high |-> CountMatches(high_confidence_keywords, window),
     regular |-> CountMatches(SCAM_KEYWORDS, window)]

\* C25: in classification mode the counts are taken over the message part
\* (from the first "MESSAGE:" to the earliest following SENDER:, CHANNEL:,
\* TIMESTAMP: or CONVERSATION) and the history part (from the first
\* "CONVERSATION HISTORY:" to the earliest following "Respond with",
\* "Remember:", "{" or "JSON"); so for the prompt of a request only the
\* message text and the history lines, each up to its first stop marker, are
\* counted, and never the sender, channel and timestamp fields.
C25_WindowParts ==
    rb_last.mode = "classify" =>
        /\ ReportedCounts(rb_last.text) = WindowCounts(AnalysisWindow(rb_last.prompt))
        /\ \A request \in ClassifyRequests :
               ClassifyPromptOf[request] = rb_last.prompt =>
                   ReportedCounts(rb_last.text) = WindowCounts(RequestWindow(request))

(***************************************************************************)
(* Claims about the decoding of the backend output, checked under          *)
(* SpecDetect                                                              *)
(***************************************************************************)
\* The object the cleaned backend output decodes to.
DecodedOutput == JsonLoads(CleanResponse(cur_response.value[1]))

\* C26: when the backend output, with the fence lines dropped if it opens with
\* a fence, decodes as a JSON object, the Verdict detect returns is built from
\* the object: is_scam, confidence, scam_type, reasoning and risk_level are the
\* object's fields, and a missing field is false, 0.0, null, "No reasoning
\* provided" and "low" respectively; the heuristic Verdict is returned only
\* when the decoding fails.
C26_FieldsFromObject ==
    (/\ dpc = "returned"
     /\ cur_response.got
     /\ cur_response.value # <<>>)
    => /\ (DecodedOutput.ok /\ DecodedOutput.type = "dict") =>
              LET obj == DecodedOutput.obj
                  v   == result.verdict
                  Given(key, t) == key \in DOMAIN obj /\ obj[key].t = t
              IN  /\ result.path = "structured"
                  /\ "is_scam" \notin DOMAIN obj => v.is_scam = FALSE
                  /\ Given("is_scam", "bool") => v.is_scam = obj["is_scam"].b
                  /\ "confidence" \notin DOMAIN obj => v.confidence = 0
                  /\ Given("confidence", "num") => v.confidence = obj["confidence"].n
                  /\ "scam_type" \notin DOMAIN obj => v.scam_type = <<>>
                  /\ Given("scam_type", "str") => v.scam_type = <<obj["scam_type"].s>>
                  /\ "reasoning" \notin DOMAIN obj => v.reasoning = "No reasoning provided"
                  /\ Given("reasoning", "str") => v.reasoning = obj["reasoning"].s
                  /\ "risk_level" \notin DOMAIN obj => v.risk_level = "low"
                  /\ Given("risk_level", "str") => v.risk_level = obj["risk_level"].s
       /\ result.path = "heuristic" => ~DecodedOutput.ok

(***************************************************************************)
(* Claims about the order of the steps of one analyze request, checked     *)
(* under SpecAnalyze                                                       *)
(***************************************************************************)
\* The positions of a step among the calls the request caused
StepsAt(name) == {i \in 1..Len(an_steps) : an_steps[i] = name}

Precedes(a, b) == \A i \in StepsAt(a), j \in StepsAt(b) : i < j

\* C29: in a request that the handler answered, extraction comes before
\* detect, and the agent's reply and then its notes are generated after detect
\* and only for a Verdict with is_scam true; a Verdict with is_scam false, the
\* error default included, comes with exactly one backend call and the note
\* "Message analyzed. No scam indicators detected.", a Verdict with is_scam
\* true with exactly three backend calls, and scamDetected is the Verdict's
\* is_scam.
C29_StepOrder ==
    (an_pc = "responded" /\ an_verdict # <<>>)
    => /\ Cardinality(StepsAt("extract_all")) = 1
       /\ Cardinality(StepsAt("detect")) = 1
       /\ Precedes("extract_all", "detect")
       /\ Precedes("detect", "generate_response")
       /\ Precedes("generate_response", "generate_notes")
       /\ Cardinality(StepsAt("generate_response")) = (IF an_verdict[1].is_scam THEN 1 ELSE 0)
       /\ Cardinality(StepsAt("generate_notes")) = (IF an_verdict[1].is_scam THEN 1 ELSE 0)
       /\ Cardinality(StepsAt("generate")) = (IF an_verdict[1].is_scam THEN 3 ELSE 1)
       /\ ~an_verdict[1].is_scam =>
              an_response.data.agentNotes = "Message analyzed. No scam indicators detected."
       /\ an_response.data.scamDetected = an_verdict[1].is_scam

(***************************************************************************)
(* Claims about the detector and agent singletons, checked under           *)
(* SpecSingleton                                                           *)
(***************************************************************************)
\* C30: the detector and the agent take the factory's selection when they are
\* constructed, and no later step (a reset of the factory, a new selection by
\* get_client, a later request through get_scam_detector or get_agent) changes
\* the backend either of them holds.
C30_CapturedAtConstruction ==
    [][/\ backend # None => backend' = backend
       /\ agent_backend # None => agent_backend' = agent_backend
       /\ (backend = None /\ backend' # None) => backend' = instance'
       /\ (agent_backend = None /\ agent_backend' # None) => agent_backend' = instance']_vars

\* A request was answered by a detector and an agent that hold the rule-based
\* client while the factory, reset since, has selected another backend.
C30_Witness ==
    /\ an_pc = "responded"
    /\ an_verdict # <<>>
    /\ Cardinality(StepsAt("generate")) = 3
    /\ StepsAt("get_client") = {}
    /\ backend = "Fallback"
    /\ agent_backend = "Fallback"
    /\ prevInstance = "Fallback"
    /\ instance \notin {None, "Fallback"}

====
